---- MODULE Spec2Model ----
(***************************************************************************)
(* ReGenNexus UAP core: the entity registry and the two routers            *)
(* (registry/registry.py, protocol/protocol_core.py), the message TTL      *)
(* (protocol/message.py), the policy engine (security/policy.py), the      *)
(* authentication manager (security/auth.py), the crypto manager           *)
(* (security/crypto.py), the client session (protocol/client.py) and the    *)
(* device plugins (plugins/base.py, plugins/iot.py).                       *)
(*                                                                         *)
(* Strings that the code only compares are TLA+ strings.  Strings that the *)
(* code matches character by character (permissions) are sequences of      *)
(* one-character strings.  An optional value is a sequence: <<>> is        *)
(* Python's None and <<v>> is the value v; an optional entity object is    *)
(* the string None or the object's name.                                   *)
(***************************************************************************)
EXTENDS Integers, Sequences, FiniteSets, TLC

\* ---------------------------------------------------------------- bounds
\* Largest value of the wall clock (time.time()).
MaxTime == 2
\* Largest number of handlers registered over all entities.
MaxHandlers == 2
\* Largest number of calls of setup_certificate_authority.
MaxCaKeys == 1
\* Clock ticks a token stays valid (expiration_hours * 3600 seconds) and a
\* certificate stays valid (30 days), in ticks of the model's clock.
TokenValidity == 1
CertValidity == 1
\* Largest number of key pairs the crypto manager generates or imports.
MaxKeys == 3
\* Largest number of messages a session's receive_message accepts.
MaxQueue == 2
\* Largest number of handlers registered with a session.
MaxClientHandlers == 2
\* Largest number of processing tasks a session creates.
MaxTasks == 2

\* ---------------------------------------------------------------- values
None == "None"
Nothing == <<>>
Some(v) == <<v>>

\* Entity ids.  "*" is the broadcast sentinel of the spec; to the registry it
\* is an id like any other.
Ids == {"a", "b"}
Broadcast == "*"

\* Entity objects and the id each was constructed with (Entity.__init__).
\* o1 and o3 are two distinct objects constructed with the same id.
Objs == {"o1", "o2", "o3"}
ObjId(o) == IF o = "o2" THEN "b" ELSE "a"

\* A handler is modelled by what it does with a message: return None, return
\* a falsy value (an empty dict), return a response, or raise.
HandlerKinds == {"none", "empty", "resp", "raise"}

Intents == {"r", "w"}

VARIABLES
    now,            \* time.time()
    entities,       \* Registry.entities: id -> entity object (None: absent)
    core_entities,  \* ProtocolCore.entities: id -> entity object (None: absent)
    handlers,       \* Entity._message_handlers, per entity object
    entity_roles,   \* PolicyManager.entity_roles: entity id -> set of roles
    role_permissions, \* PolicyManager.role_permissions: role -> permissions
    policies,       \* PolicyManager.policies: policy id -> definition
    ca_key,         \* AuthenticationManager._ca_cert/_ca_key: the CA's key
                    \* pair, 0 before setup_certificate_authority
    revoked_tokens,         \* AuthenticationManager.revoked_tokens
    revoked_certificates,   \* AuthenticationManager.revoked_certificates
    private_keys,   \* CryptoManager.private_keys: entity id -> key pair, 0: none
    public_keys,    \* CryptoManager.public_keys: entity id -> key pair, 0: none
    shared_keys,    \* CryptoManager.shared_keys: <<local, remote>> -> key
    next_key,       \* the number of key pairs generated so far
    security_enabled,   \* UAP_Client.security_enabled, per session
    connected,          \* UAP_Client.connected
    security_manager,   \* UAP_Client.security_manager is set (not None)
    processing_task,    \* UAP_Client.processing_task: the position in tasks
                        \* of the task it refers to, 0 when it is None
    tasks,              \* the _process_messages tasks created by the session,
                        \* in order of creation, each with its position
    message_handlers,   \* UAP_Client.message_handlers
    message_queue,      \* UAP_Client.message_queue
    log,                \* the handler invocations made for the session, in
                        \* order of their start, each with how it ended
    accepted,           \* the ids of the messages receive_message queued
    history,            \* the calls of connect and disconnect that returned
                        \* True, per session
    initialized,        \* DevicePlugin.initialized, per plugin
    capabilities,       \* DevicePlugin.capabilities, per plugin
    metadata,           \* DevicePlugin.metadata, per plugin
    command_handlers,   \* DevicePlugin.command_handlers, per plugin
    wire,           \* the dictionary last returned by encrypt_message or handed
                    \* to the router, as it travels to its recipient
    last            \* what the most recent call did and returned

routerVars == <<entities, core_entities, handlers>>
policyVars == <<entity_roles, role_permissions, policies>>
authVars == <<ca_key, revoked_tokens, revoked_certificates>>
cryptoVars == <<private_keys, public_keys, shared_keys, next_key>>
sessionVars == <<connected, security_manager, processing_task, tasks,
                 message_handlers, message_queue, log, accepted, history>>
clientVars == <<security_enabled, sessionVars, wire>>
pluginVars == <<initialized, capabilities, metadata, command_handlers>>
vars == <<now, routerVars, policyVars, authVars, cryptoVars, clientVars,
          pluginVars, last>>

Idle == [op |-> "idle"]

\* ------------------------------------------------------- message.py: TTL
\* UAP_Message.is_expired (message.py:130-140)
is_expired(m, t) ==
    IF m.ttl = Nothing THEN FALSE ELSE t > m.timestamp + m.ttl[1]

\* UAP_Message.validate (message.py:151-166); sender, recipient and intent of
\* the messages of this model are never empty.
validate(m, t) == ~is_expired(m, t)

\* The messages a caller can build at time t: every sender, recipient,
\* intent, creation time and ttl.
Messages(t) ==
    [sender : Ids, recipient : Ids \cup {Broadcast}, intent : Intents,
     timestamp : {0, t}, ttl : {Nothing, Some(1)}]

\* Messages without a ttl, built at time 0, with one intent.
PlainMessages ==
    {m \in Messages(0) : m.ttl = Nothing /\ m.intent = "r"}

\* Messages without a ttl, from one sender to an entity id.
IntentMessages ==
    {m \in Messages(0) : m.ttl = Nothing /\ m.sender = "a" /\ m.recipient \in Ids}

\* Messages of one sender and one intent to an entity id, with and without
\* a ttl.
TtlMessages(t) ==
    {m \in Messages(t) : m.sender = "a" /\ m.intent = "r" /\ m.recipient \in Ids}

\* ------------------------------------------ message.py: response helpers
\* UAP_Message.__init__ (message.py:22-49) at time t, called with a message
\* id and without timestamp, encrypted, signature or ttl.  Identifiers are
\* sequences of parts, so that two of them can be joined.
UAP_Message(sender, recipient, intent, payload, message_id, t) ==
    [sender |-> sender, recipient |-> recipient, intent |-> intent,
     payload |-> payload, id |-> message_id, timestamp |-> t,
     encrypted |-> FALSE, signature |-> Nothing, ttl |-> Nothing]

\* A create_response that keeps the request's direction.
create_response_same_direction(request, intent, payload, t) ==
    UAP_Message(request.sender, request.recipient, intent, payload,
                <<"response-">> \o request.id, t)

\* create_response (message.py:187-205) at time t
create_response(request, intent, payload, t) ==
    UAP_Message(request.recipient, request.sender, intent, payload,
                <<"response-">> \o request.id, t)

\* create_error_response (message.py:207-226) at time t
create_error_response(request, error_code, error_message, t) ==
    create_response(request, "error",
                    [error_code |-> error_code,
                     error_message |-> error_message,
                     original_intent |-> request.intent], t)

\* create_ack_response (message.py:228-246) at time t
create_ack_response(request, t) ==
    create_response(request, "ack",
                    [original_intent |-> request.intent, timestamp |-> t], t)

\* The requests answered: every direction, intent and time of creation,
\* among them a request that is itself a response.
RequestIds == {<<"m1">>, <<"response-", "m1">>}
ResponsePayloads == {[status |-> "ok"], [status |-> "busy"]}
Requests(t) ==
    {UAP_Message(s, r, i, [status |-> "ask"], id, c) :
       s \in Ids, r \in Ids \cup {Broadcast}, i \in Intents \cup {"ack"},
       id \in RequestIds, c \in {0, t}}

\* A call of create_response and the message it returns.
CreateResponse(request, intent, payload) ==
    /\ last' = [op |-> "create_response", request |-> request,
                intent |-> intent, payload |-> payload,
                result |-> create_response(request, intent, payload, now)]
    /\ UNCHANGED <<now, pluginVars, routerVars, policyVars, authVars, cryptoVars, clientVars>>

\* A call of create_error_response and the message it returns.
CreateErrorResponse(request, error_code, error_message) ==
    /\ last' = [op |-> "create_error_response", request |-> request,
                error_code |-> error_code, error_message |-> error_message,
                result |-> create_error_response(request, error_code,
                                                 error_message, now)]
    /\ UNCHANGED <<now, pluginVars, routerVars, policyVars, authVars, cryptoVars, clientVars>>

\* A call of create_ack_response and the message it returns.
CreateAckResponse(request) ==
    /\ last' = [op |-> "create_ack_response", request |-> request,
                result |-> create_ack_response(request, now)]
    /\ UNCHANGED <<now, pluginVars, routerVars, policyVars, authVars, cryptoVars, clientVars>>

\* ------------------------------------------- protocol_core.py: Entity
\* The response the i-th handler of entity object o returns when it returns
\* one: every handler builds its own response.
Response(o, i) == [from |-> o, handler |-> i]

RECURSIVE RunHandlers(_, _, _)
\* The for loop of Entity.process_message from position i on: the positions
\* invoked, in order, and the value returned.
RunHandlers(o, hs, i) ==
    IF i > Len(hs) THEN [invoked |-> <<>>, result |-> Nothing]
    ELSE IF hs[i] = "resp"
         THEN [invoked |-> <<i>>, result |-> Some(Response(o, i))]
         ELSE LET rest == RunHandlers(o, hs, i + 1)
              IN  [invoked |-> <<i>> \o rest.invoked, result |-> rest.result]

\* A process_message whose loop does not return at the first response: it
\* invokes every handler and returns the last response.
process_message_last(o, hs) ==
    LET resp == {i \in 1..Len(hs) : hs[i] = "resp"}
    IN  [invoked |-> [i \in 1..Len(hs) |-> i],
         result |-> IF resp = {} THEN Nothing
                    ELSE Some(Response(o, CHOOSE i \in resp :
                                             \A j \in resp : j <= i))]

\* Entity.process_message (protocol_core.py:110-129)
process_message(o, hs) == RunHandlers(o, hs, 1)

TotalHandlers(h) ==
    LET RECURSIVE Sum(_)
        Sum(S) == IF S = {} THEN 0
                  ELSE LET o == CHOOSE x \in S : TRUE
                       IN  Len(h[o]) + Sum(S \ {o})
    IN  Sum(Objs)

\* Entity.register_message_handler (protocol_core.py:131-138)
RegisterHandler(o, k) ==
    /\ TotalHandlers(handlers) < MaxHandlers
    /\ handlers' = [handlers EXCEPT ![o] = Append(@, k)]
    /\ last' = Idle
    /\ UNCHANGED <<now, pluginVars, entities, core_entities, policyVars, authVars, cryptoVars, clientVars>>

\* ------------------------------------------------ policy.py: PolicyManager
Roles == {"guest"}

\* Permission strings, as sequences of characters.
PermPool == {<<"b", ":", "r">>, <<"*", ":", "w">>}

\* Permission strings with a wildcard between dots and with a character
\* that the regular expression syntax gives a meaning to.
GrantPool ==
    PermPool \cup {<<"a", ".", "*", ":", "r">>, <<"a", "+", ":", "r">>}

\* The resources and actions a caller asks about.
Resources == {<<"b">>, <<"a", ".", "b">>, <<"a", ".", "b", ".", "c">>, <<"a", "a">>}
Actions == {<<"r">>, <<"w">>}

\* A field of a policy definition is absent (Nothing) or present (Some(v)).
\* "resources" and "actions" hold a list of strings, modelled by the set of
\* its members, or a string.
List(S) == [type |-> "list", list |-> S, str |-> <<>>]
Str(t) == [type |-> "str", list |-> {}, str |-> t]

\* "entities" holds a list of entity ids or a dictionary with optional
\* "include" and "exclude" lists.
EntityList(S) ==
    [type |-> "list", list |-> S, include |-> Nothing, exclude |-> Nothing]
EntityDict(include, exclude) ==
    [type |-> "dict", list |-> {}, include |-> include, exclude |-> exclude]

\* The values of attributes: None, an integer or a list of integers.
NoneV == [kind |-> "None", n |-> 0, items |-> {}]
IntV(n) == [kind |-> "int", n |-> n, items |-> {}]
ListV(S) == [kind |-> "list", n |-> 0, items |-> S]

\* The conditions of a policy, by type; a field a condition does not have
\* is absent.
TimeRange(start_time, end_time) ==
    [type |-> "time_range", start_time |-> start_time, end_time |-> end_time,
     allowed_ips |-> {}, attribute |-> "", value |-> NoneV,
     operator |-> Nothing]
IpRange(allowed_ips) ==
    [type |-> "ip_range", start_time |-> Nothing, end_time |-> Nothing,
     allowed_ips |-> allowed_ips, attribute |-> "", value |-> NoneV,
     operator |-> Nothing]
Attribute(attribute, operator, value) ==
    [type |-> "attribute", start_time |-> Nothing, end_time |-> Nothing,
     allowed_ips |-> {}, attribute |-> attribute, value |-> value,
     operator |-> operator]
OtherCondition(type) ==
    [type |-> type, start_time |-> Nothing, end_time |-> Nothing,
     allowed_ips |-> {}, attribute |-> "", value |-> NoneV,
     operator |-> Nothing]

\* The types and operators _evaluate_condition knows (policy.py:233-278)
ConditionTypes == {"time_range", "ip_range", "attribute"}
Operators == {"eq", "ne", "gt", "lt", "in", "contains"}

Policy(resources, actions, ents, conditions, effect) ==
    [resources |-> resources, actions |-> actions, entities |-> ents,
     conditions |-> conditions, effect |-> effect]

PolicyPool ==
    {Policy(Some(List({<<"b">>})), Some(List({<<"w">>})),
            Some(EntityList({"b"})), Nothing, Nothing),
     Policy(Nothing, Some(List({<<"r">>})), Nothing, Nothing, Nothing)}
PolicyIds == {"p1", "p2"}

\* The order in which the loop of evaluate_policy meets the policies: the
\* order of insertion into the dict self.policies.  Every specification
\* inserts "p2" after "p1" or alone.
PolicyOrder == <<"p1", "p2">>

\* "10.0.0.0/8", "10.0.0.0/24", "10.0.0.5" and "10.0.1.5"
Net8 == <<"1", "0", ".", "0", ".", "0", ".", "0", "/", "8">>
Net24 == <<"1", "0", ".", "0", ".", "0", ".", "0", "/", "2", "4">>
IpInside == <<"1", "0", ".", "0", ".", "0", ".", "5">>
IpOutside == <<"1", "0", ".", "0", ".", "1", ".", "5">>

\* Policy definitions with an effect, with a wildcard in place of its
\* lists, with entity constraints and with conditions of every type.
PolicyDefs ==
    PolicyPool \cup
    {Policy(Some(List({<<"b">>})), Some(List({<<"r">>})), Nothing, Nothing,
            Some("deny")),
     Policy(Some(List({<<"a", "a">>})), Nothing, Nothing, Nothing,
            Some("allow")),
     Policy(Some(Str(<<"*">>)), Some(Str(<<"*">>)), Nothing, Nothing, Nothing),
     Policy(Some(List({<<"*">>})), Some(List({<<"*">>})), Nothing, Nothing,
            Nothing),
     Policy(Nothing, Nothing,
            Some(EntityDict(Some({"a", "b"}), Some({"b"}))), Nothing, Nothing),
     Policy(Nothing, Nothing, Nothing,
            Some(<<TimeRange(Some(1), Some(1))>>), Nothing),
     Policy(Nothing, Nothing, Nothing, Some(<<IpRange({Net24})>>), Nothing),
     Policy(Nothing, Nothing, Nothing, Some(<<IpRange({Net8})>>), Nothing),
     Policy(Nothing, Nothing, Nothing,
            Some(<<Attribute("level", Some("gt"), IntV(1))>>), Nothing),
     Policy(Nothing, Nothing, Nothing,
            Some(<<Attribute("level", Nothing, IntV(2)),
                   Attribute("level", Some("in"), ListV({1, 2}))>>), Nothing),
     Policy(Nothing, Nothing, Nothing,
            Some(<<Attribute("level", Some("contains"), IntV(1))>>), Nothing),
     Policy(Nothing, Nothing, Nothing, Some(<<OtherCondition("geo")>>),
            Nothing),
     Policy(Nothing, Nothing, Nothing,
            Some(<<Attribute("level", Some("like"), IntV(2))>>), Nothing),
     Policy(Nothing, Nothing, Nothing,
            Some(<<TimeRange(Nothing, Nothing), OtherCondition("geo")>>),
            Nothing)}

\* The attributes a context gives values to, and the contexts a caller
\* passes: none, and some with a time, an address and an attribute.
Attributes == {"level"}
Context(current_time, client_ip, level) ==
    [current_time |-> current_time, client_ip |-> client_ip,
     entity_attributes |-> [a \in Attributes |-> level]]
NoContext == Context(Nothing, Nothing, NoneV)
Contexts ==
    {NoContext,
     Context(Some(1), Some(IpInside), IntV(2)),
     Context(Some(2), Some(IpOutside), ListV({1}))}

\* PolicyManager.add_policy (policy.py:29-38)
add_policy(pid, def) ==
    /\ policies' = [policies EXCEPT ![pid] = Some(def)]
    /\ last' = Idle
    /\ UNCHANGED <<now, pluginVars, routerVars, authVars, cryptoVars, clientVars, entity_roles, role_permissions>>

\* PolicyManager.remove_policy (policy.py:40-49)
remove_policy(pid) ==
    /\ policies' = [policies EXCEPT ![pid] = Nothing]
    /\ last' = Idle
    /\ UNCHANGED <<now, pluginVars, routerVars, authVars, cryptoVars, clientVars, entity_roles, role_permissions>>

\* PolicyManager.assign_role (policy.py:51-63)
assign_role(e, role) ==
    /\ entity_roles' = [entity_roles EXCEPT ![e] = @ \cup {role}]
    /\ last' = Idle
    /\ UNCHANGED <<now, pluginVars, routerVars, authVars, cryptoVars, clientVars, role_permissions, policies>>

\* PolicyManager.revoke_role (policy.py:65-75)
revoke_role(e, role) ==
    /\ entity_roles' = [entity_roles EXCEPT ![e] = @ \ {role}]
    /\ last' = Idle
    /\ UNCHANGED <<now, pluginVars, routerVars, authVars, cryptoVars, clientVars, role_permissions, policies>>

\* PolicyManager.define_role_permissions (policy.py:77-86)
define_role_permissions(role, perms) ==
    /\ role_permissions' = [role_permissions EXCEPT ![role] = perms]
    /\ last' = Idle
    /\ UNCHANGED <<now, pluginVars, routerVars, authVars, cryptoVars, clientVars, entity_roles, policies>>

\* PolicyManager.get_entity_permissions (policy.py:88-106)
get_entity_permissions(e) ==
    UNION {role_permissions[r] : r \in entity_roles[e]}

RECURSIVE RegexMatch(_, _)
\* re.match("^" + regex + "$", permission) for the regex that
\* _match_wildcard_permission builds from a pattern: "." and ":" are
\* escaped and stand for themselves, "*" becomes [^.]*, and every other
\* character goes into the regex as it is, so that a "+" after a character
\* is the regex quantifier "one or more". (No pattern of this model has a
\* "+" first or after a "*", and no permission ends with a newline.)
RegexMatch(pattern, permission) ==
    IF pattern = <<>> THEN permission = <<>>
    ELSE IF Head(pattern) = "*"
         THEN \E k \in 0..Len(permission) :
                 /\ \A j \in 1..k : permission[j] # "."
                 /\ RegexMatch(Tail(pattern),
                               SubSeq(permission, k + 1, Len(permission)))
         ELSE IF Len(pattern) >= 2 /\ pattern[2] = "+"
              THEN \E k \in 1..Len(permission) :
                      /\ \A j \in 1..k : permission[j] = Head(pattern)
                      /\ RegexMatch(SubSeq(pattern, 3, Len(pattern)),
                                    SubSeq(permission, k + 1, Len(permission)))
              ELSE /\ permission # <<>>
                   /\ Head(permission) = Head(pattern)
                   /\ RegexMatch(Tail(pattern), Tail(permission))

\* PolicyManager._match_wildcard_permission (policy.py:132-145)
match_wildcard_permission(pattern, permission) == RegexMatch(pattern, permission)

\* PolicyManager.check_permission (policy.py:108-130)
check_permission(e, permission) ==
    \/ permission \in get_entity_permissions(e)
    \/ \E perm \in get_entity_permissions(e) :
          match_wildcard_permission(perm, permission)

\* Python's `x in t` for two strings: x is a substring of t.
IsSubstring(x, t) ==
    \E i \in 0..(Len(t) - Len(x)) : SubSeq(t, i + 1, i + Len(x)) = x

\* Python's `x in c` for a string x and a list of strings or a string c.
In(x, c) ==
    IF c.type = "list" THEN x \in c.list ELSE IsSubstring(x, c.str)

\* The value of a truth test, or the exception a comparison raises.
Bool(b) == IF b THEN "True" ELSE "False"

\* dict.get on the attributes of a context: None when the key is absent.
Get(d, k) == IF k \in DOMAIN d THEN d[k] ELSE NoneV

\* The comparison an attribute condition makes (policy.py:268-282).  Python
\* orders two integers and raises TypeError when asked to order None or a
\* list against an integer, to look into an integer or into None.  (No
\* condition of this model orders two lists.)
compare(operator, entity_value, value) ==
    CASE operator = "eq" -> Bool(entity_value = value)
      [] operator = "ne" -> Bool(entity_value # value)
      [] operator = "gt" ->
            IF entity_value.kind = "int" /\ value.kind = "int"
            THEN Bool(entity_value.n > value.n) ELSE "TypeError"
      [] operator = "lt" ->
            IF entity_value.kind = "int" /\ value.kind = "int"
            THEN Bool(entity_value.n < value.n) ELSE "TypeError"
      [] operator = "in" ->
            IF value.kind = "list"
            THEN Bool(entity_value.kind = "int" /\ entity_value.n \in value.items)
            ELSE "TypeError"
      [] operator = "contains" ->
            IF entity_value.kind = "list"
            THEN Bool(value.kind = "int" /\ value.n \in entity_value.items)
            ELSE "TypeError"
      [] OTHER -> "False"

\* str.startswith
StartsWith(s, prefix) ==
    Len(prefix) <= Len(s) /\ SubSeq(s, 1, Len(prefix)) = prefix

\* The positions of the character ch in the string s.
Positions(s, ch) == {i \in 1..Len(s) : s[i] = ch}

\* The largest member of a non-empty set of numbers.
Last(S) == CHOOSE i \in S : \A j \in S : j <= i

\* PolicyManager._ip_in_range (policy.py:288-311); an ip_range of this
\* model has at most one "/".
ip_in_range(ip, ip_range) ==
    IF ip_range = ip THEN TRUE
    ELSE IF Positions(ip_range, "/") # {}
         THEN LET base_ip == SubSeq(ip_range, 1, Last(Positions(ip_range, "/")) - 1)
                  dots == Positions(base_ip, ".")
                  network == IF dots = {} THEN base_ip
                             ELSE SubSeq(base_ip, 1, Last(dots) - 1)
              IN  StartsWith(ip, network)
         ELSE FALSE

\* Python's truth test of an optional number: None and 0 are false.
Truthy(x) == x # Nothing /\ x[1] # 0

\* An _evaluate_condition whose two else branches return True: a condition
\* it does not know is taken as satisfied.
evaluate_condition_fail_open(condition, e, resource, action, context, t) ==
    IF condition.type = "time_range"
    THEN LET current_time == IF Truthy(context.current_time)
                             THEN context.current_time[1] ELSE t
         IN  IF Truthy(condition.start_time) /\ current_time < condition.start_time[1]
             THEN "False"
             ELSE IF Truthy(condition.end_time) /\ current_time > condition.end_time[1]
                  THEN "False"
                  ELSE "True"
    ELSE IF condition.type = "ip_range"
    THEN IF context.client_ip = Nothing \/ context.client_ip = Some(<<>>)
         THEN "False"
         ELSE Bool(\E ip_range \in condition.allowed_ips :
                      ip_in_range(context.client_ip[1], ip_range))
    ELSE IF condition.type = "attribute"
    THEN IF condition.operator # Nothing /\ condition.operator[1] \notin Operators
         THEN "True"
         ELSE compare(IF condition.operator = Nothing THEN "eq"
                      ELSE condition.operator[1],
                      Get(context.entity_attributes, condition.attribute),
                      condition.value)
    ELSE "True"

\* PolicyManager._evaluate_condition (policy.py:216-286) at time t: "True",
\* "False", or the exception that leaves the method.
evaluate_condition(condition, e, resource, action, context, t) ==
    IF condition.type = "time_range"
    THEN LET current_time == IF Truthy(context.current_time)
                             THEN context.current_time[1] ELSE t
         IN  IF Truthy(condition.start_time) /\ current_time < condition.start_time[1]
             THEN "False"
             ELSE IF Truthy(condition.end_time) /\ current_time > condition.end_time[1]
                  THEN "False"
                  ELSE "True"
    ELSE IF condition.type = "ip_range"
    THEN IF context.client_ip = Nothing \/ context.client_ip = Some(<<>>)
         THEN "False"
         ELSE Bool(\E ip_range \in condition.allowed_ips :
                      ip_in_range(context.client_ip[1], ip_range))
    ELSE IF condition.type = "attribute"
    THEN compare(IF condition.operator = Nothing THEN "eq"
                 ELSE condition.operator[1],
                 Get(context.entity_attributes, condition.attribute),
                 condition.value)
    ELSE "False"

RECURSIVE AllConditions(_, _, _, _, _, _, _)
\* The loop over policy["conditions"] (policy.py:208-211) from position i
\* on: it stops at the first condition that is not satisfied.
AllConditions(conditions, i, e, resource, action, context, t) ==
    IF i > Len(conditions) THEN "True"
    ELSE LET r == evaluate_condition(conditions[i], e, resource, action, context, t)
         IN  IF r = "True"
             THEN AllConditions(conditions, i + 1, e, resource, action, context, t)
             ELSE r

\* The entity constraints of a policy (policy.py:197-205)
EntitiesAllow(ents, e) ==
    IF ents.type = "list" THEN e \in ents.list
    ELSE /\ ents.include # Nothing => e \in ents.include[1]
         /\ ents.exclude # Nothing => e \notin ents.exclude[1]

\* PolicyManager._evaluate_policy_rules (policy.py:174-214) at time t.  The
\* method never reads policy["effect"].
evaluate_policy_rules(policy, e, resource, action, context, t) ==
    IF policy.resources # Nothing /\ ~In(resource, policy.resources[1])
    THEN "False"
    ELSE IF policy.actions # Nothing /\ ~In(action, policy.actions[1])
    THEN "False"
    ELSE IF policy.entities # Nothing /\ ~EntitiesAllow(policy.entities[1], e)
    THEN "False"
    ELSE IF policy.conditions = Nothing THEN "True"
    ELSE AllConditions(policy.conditions[1], 1, e, resource, action, context, t)

RECURSIVE WalkPolicies(_, _, _, _, _, _)
\* The loop over self.policies.items() (policy.py:168-170) from position i
\* of the insertion order on: the first policy that allows ends it with
\* True, an exception raised while a policy is evaluated leaves it.
WalkPolicies(i, e, resource, action, context, t) ==
    IF i > Len(PolicyOrder) THEN "False"
    ELSE IF policies[PolicyOrder[i]] = Nothing
    THEN WalkPolicies(i + 1, e, resource, action, context, t)
    ELSE LET r == evaluate_policy_rules(policies[PolicyOrder[i]][1], e,
                                        resource, action, context, t)
         IN  IF r = "False"
             THEN WalkPolicies(i + 1, e, resource, action, context, t)
             ELSE r

\* An evaluate_policy that allows what nothing grants: its last line returns
\* True.
evaluate_policy_default_allow(e, resource, action, context, t) ==
    IF check_permission(e, resource \o <<":">> \o action) THEN "True"
    ELSE LET r == WalkPolicies(1, e, resource, action, context, t)
         IN  IF r = "False" THEN "True" ELSE r

\* PolicyManager.evaluate_policy (policy.py:147-172) at time t; a missing
\* context is the empty one.
evaluate_policy(e, resource, action, context, t) ==
    IF check_permission(e, resource \o <<":">> \o action) THEN "True"
    ELSE WalkPolicies(1, e, resource, action, context, t)

\* A call of check_permission (policy.py:108-130) and what it returns.
CheckPermission(e, permission) ==
    /\ last' = [op |-> "check_permission", entity |-> e,
                permission |-> permission,
                result |-> check_permission(e, permission)]
    /\ UNCHANGED <<now, pluginVars, routerVars, policyVars, authVars, cryptoVars, clientVars>>

\* A call of evaluate_policy (policy.py:147-172) and what it returns or
\* raises.
EvaluatePolicy(e, resource, action, context) ==
    /\ last' = [op |-> "evaluate_policy", entity |-> e, resource |-> resource,
                action |-> action, context |-> context,
                result |-> evaluate_policy(e, resource, action, context, now)]
    /\ UNCHANGED <<now, pluginVars, routerVars, policyVars, authVars, cryptoVars, clientVars>>

\* An entity id or an intent of this model as a sequence of characters.
Chars(s) == <<s>>

\* ------------------------------------------- auth.py: AuthenticationManager
\* An ECDSA signature is modelled by what it binds: the signing key and the
\* bytes signed.  It verifies under a public key and bytes iff both are the
\* ones it was made with.  Key pairs are numbered: 0 is no key, 1..MaxCaKeys
\* are the key pairs setup_certificate_authority generates, in order, and
\* MaxCaKeys + 1 is a key pair generated elsewhere.
Sign(key, data) == [key |-> key, data |-> data]
Verify(key, data, sig) == sig = Sign(key, data)

TokenIds == {"t1", "t2"}
CaSubject == "ReGenNexus Core CA"

\* The fields of a token that generate_token signs (auth.py:255-261).
TokenData(tok) ==
    [token_id |-> tok.token_id, entity_id |-> tok.entity_id,
     exp |-> tok.exp, iat |-> tok.iat]

\* AuthenticationManager.generate_token (auth.py:239-274) called at time t for
\* entity e by a manager whose CA key is k, the uuid4 drawn being id.
generate_token(id, e, t, k) ==
    LET data == [token_id |-> id, entity_id |-> e,
                 exp |-> t + TokenValidity, iat |-> t]
    IN  data @@ [signature |-> IF k # 0 THEN Some(Sign(k, data)) ELSE Nothing]

Keys == 1..(MaxCaKeys + 1)

\* The tokens a caller can present at time t: the tokens generate_token
\* returns, at time 0 or at time t, with or without a CA key; and those
\* tokens with the entity id replaced or with the signature removed.
IssuedTokens(t) ==
    {generate_token(id, "a", t0, k) :
        id \in TokenIds, t0 \in {0, t}, k \in {0} \cup Keys}
PresentedTokens(t) ==
    UNION {{tok, [tok EXCEPT !.entity_id = "b"], [tok EXCEPT !.signature = Nothing]} :
           tok \in IssuedTokens(t)}

\* validate_token without the lookup in revoked_tokens.
validate_token_result_unrevoked(tok) ==
    IF tok.exp < now THEN [ok |-> FALSE, entity_id |-> None]
    ELSE IF /\ tok.signature # Nothing /\ ca_key # 0
            /\ ~Verify(ca_key, TokenData(tok), tok.signature[1])
         THEN [ok |-> FALSE, entity_id |-> None]
         ELSE [ok |-> TRUE, entity_id |-> tok.entity_id]

\* AuthenticationManager.validate_token (auth.py:276-324): the pair returned.
validate_token_result(tok) ==
    IF tok.token_id \in revoked_tokens THEN [ok |-> FALSE, entity_id |-> None]
    ELSE IF tok.exp < now THEN [ok |-> FALSE, entity_id |-> None]
    ELSE IF /\ tok.signature # Nothing /\ ca_key # 0
            /\ ~Verify(ca_key, TokenData(tok), tok.signature[1])
         THEN [ok |-> FALSE, entity_id |-> None]
         ELSE [ok |-> TRUE, entity_id |-> tok.entity_id]

validate_token(tok) ==
    /\ last' = [op |-> "validate_token", token |-> tok]
               @@ validate_token_result(tok)
    /\ UNCHANGED <<now, pluginVars, routerVars, policyVars, authVars, cryptoVars, clientVars>>

\* AuthenticationManager.setup_certificate_authority (auth.py:37-86): a fresh
\* key pair and a self-signed certificate replace the stored ones.
setup_certificate_authority ==
    /\ ca_key < MaxCaKeys
    /\ ca_key' = ca_key + 1
    /\ last' = [op |-> "setup_certificate_authority"]
    /\ UNCHANGED <<now, pluginVars, routerVars, policyVars, cryptoVars, clientVars, revoked_tokens, revoked_certificates>>

\* The CA certificate of key pair k, as far as verification reads it.
CaCert(k, subject) == [subject |-> subject, public_key |-> k]

\* The fields of a certificate that issue_entity_certificate signs
\* (auth.py:110-125).
CertData(cert) ==
    [serial_number |-> cert.serial_number, issuer |-> cert.issuer,
     subject |-> cert.subject, not_before |-> cert.not_before,
     not_after |-> cert.not_after, public_key |-> cert.public_key,
     entity_id |-> cert.entity_id]

\* base64.b64encode(...).decode('utf-8') and base64.b64decode.
b64encode(bytes) == <<"b64", bytes>>
b64decode(text) == text[2]

\* AuthenticationManager.issue_entity_certificate (auth.py:88-142) called at
\* time t with the CA certificate ca and the private key of key pair k.
issue_entity_certificate(e, pk, ca, k, t) ==
    LET data == [serial_number |-> t, issuer |-> ca.subject, subject |-> e,
                 not_before |-> t, not_after |-> t + CertValidity,
                 public_key |-> b64encode(pk), entity_id |-> e]
    IN  data @@ [signature |-> Sign(k, data),
                 signature_algorithm |-> "ecdsa-with-SHA384"]

\* The certificates a caller can present at time t: the ones issued at time
\* 0 or at time t under the CA's subject, and those with the entity id
\* replaced.
IssuedCerts(t) ==
    {issue_entity_certificate("a", "ka", CaCert(k, CaSubject), k, t0) :
        k \in Keys, t0 \in {0, t}}
PresentedCerts(t) ==
    IssuedCerts(t) \cup {[c EXCEPT !.entity_id = "b"] : c \in IssuedCerts(t)}

\* The keys of the certificate that verify_entity_certificate reads or
\* deletes: a certificate without one of them raises KeyError.
CertKeys ==
    {"serial_number", "not_before", "not_after", "issuer", "signature",
     "signature_algorithm"}

\* verify_entity_certificate with the end of the validity period excluded.
verify_entity_certificate_result_exclusive(cert, ca) ==
    IF ~(CertKeys \subseteq DOMAIN cert) THEN FALSE
    ELSE IF cert.serial_number \in revoked_certificates THEN FALSE
    ELSE IF now < cert.not_before \/ now >= cert.not_after THEN FALSE
    ELSE IF cert.issuer # ca.subject THEN FALSE
    ELSE Verify(ca.public_key, CertData(cert), cert.signature)

\* AuthenticationManager.verify_entity_certificate (auth.py:144-200): the
\* value returned.  Every exception, a KeyError included, returns False; no
\* branch that reads a key returns True before all of CertKeys are read.
verify_entity_certificate_result(cert, ca) ==
    IF ~(CertKeys \subseteq DOMAIN cert) THEN FALSE
    ELSE IF cert.serial_number \in revoked_certificates THEN FALSE
    ELSE IF now < cert.not_before \/ now > cert.not_after THEN FALSE
    ELSE IF cert.issuer # ca.subject THEN FALSE
    ELSE Verify(ca.public_key, CertData(cert), cert.signature)

verify_entity_certificate(cert, ca) ==
    /\ last' = [op |-> "verify_entity_certificate", cert |-> cert, ca |-> ca,
                ok |-> verify_entity_certificate_result(cert, ca)]
    /\ UNCHANGED <<now, pluginVars, routerVars, policyVars, authVars, cryptoVars, clientVars>>

\* verify_entity_authentication without the comparison of entity ids.
verify_entity_authentication_result_any_entity(e, cert, pk) ==
    IF ca_key = 0 THEN FALSE
    ELSE IF ~verify_entity_certificate_result(cert, CaCert(ca_key, CaSubject))
         THEN FALSE
    ELSE b64decode(cert.public_key) = pk

\* AuthenticationManager.verify_entity_authentication (auth.py:202-237): the
\* value returned.
verify_entity_authentication_result(e, cert, pk) ==
    IF ca_key = 0 THEN FALSE
    ELSE IF ~verify_entity_certificate_result(cert, CaCert(ca_key, CaSubject))
         THEN FALSE
    ELSE IF cert.entity_id # e THEN FALSE
    ELSE b64decode(cert.public_key) = pk

verify_entity_authentication(e, cert, pk) ==
    /\ last' = [op |-> "verify_entity_authentication", cert |-> cert,
                entity_id |-> e, public_key |-> pk,
                ok |-> verify_entity_authentication_result(e, cert, pk)]
    /\ UNCHANGED <<now, pluginVars, routerVars, policyVars, authVars, cryptoVars, clientVars>>

\* AuthenticationManager.revoke_token (auth.py:326-334)
revoke_token(id) ==
    /\ revoked_tokens' = revoked_tokens \cup {id}
    /\ last' = [op |-> "revoke_token", token_id |-> id]
    /\ UNCHANGED <<now, pluginVars, routerVars, policyVars, cryptoVars, clientVars, ca_key, revoked_certificates>>

\* AuthenticationManager.revoke_certificate (auth.py:336-344)
revoke_certificate(serial) ==
    /\ revoked_certificates' = revoked_certificates \cup {serial}
    /\ last' = [op |-> "revoke_certificate", serial_number |-> serial]
    /\ UNCHANGED <<now, pluginVars, routerVars, policyVars, cryptoVars, clientVars, ca_key, revoked_tokens>>

\* --------------------------------------------------- crypto.py: CryptoManager
\* A key pair is a number; its private and its public half carry the same
\* number.  The ECDH secret of private half n and public half m depends on
\* the two key pairs only, whichever side computes it: it is the set {n, m},
\* and HKDF maps it one-to-one to the shared key.
ECDH(n, m) == {n, m}

\* The message dictionaries a caller encrypts: string-keyed JSON values.
Payloads == {"hello"}
DictMessages ==
    [sender : Ids, recipient : Ids, intent : {"secret"}, payload : Payloads,
     id : {"m1"}, timestamp : {0}]

\* json.dumps and json.loads of such a dictionary.
json_dumps(m) == [json |-> m]
json_loads(text) == text.json

\* The nonces os.urandom(12) can return.
Nonces == {"n1", "n2"}

\* AESGCM(key).encrypt(nonce, plaintext, None): the ciphertext with its tag.
AesGcmEncrypt(key, nonce, plaintext) ==
    [key |-> key, nonce |-> nonce, plaintext |-> plaintext, intact |-> TRUE]

\* AESGCM(key).decrypt(nonce, ciphertext, None): the plaintext, or Nothing
\* when the tag does not verify (InvalidTag).
AesGcmDecrypt(key, nonce, ciphertext) ==
    IF ciphertext.intact /\ ciphertext.key = key /\ ciphertext.nonce = nonce
    THEN Some(ciphertext.plaintext) ELSE Nothing

\* CryptoManager.generate_keypair (crypto.py:34-75)
generate_keypair(e) ==
    /\ next_key < MaxKeys
    /\ next_key' = next_key + 1
    /\ private_keys' = [private_keys EXCEPT ![e] = next_key + 1]
    /\ public_keys' = [public_keys EXCEPT ![e] = next_key + 1]
    /\ last' = [op |-> "generate_keypair", entity_id |-> e]
    /\ UNCHANGED <<now, pluginVars, routerVars, policyVars, authVars, clientVars, shared_keys>>

\* CryptoManager.import_keypair (crypto.py:77-116) of the private half of key
\* pair n and, when pub is given, the public half of key pair pub[1].
import_keypair(e, n, pub) ==
    /\ private_keys' = [private_keys EXCEPT ![e] = n]
    /\ public_keys' = [public_keys EXCEPT ![e] = IF pub = Nothing THEN n ELSE pub[1]]
    /\ last' = [op |-> "import_keypair", entity_id |-> e, result |-> TRUE]
    /\ UNCHANGED <<now, pluginVars, routerVars, policyVars, authVars, clientVars, shared_keys, next_key>>

\* CryptoManager.import_public_key (crypto.py:118-144)
import_public_key(e, m) ==
    /\ public_keys' = [public_keys EXCEPT ![e] = m]
    /\ last' = [op |-> "import_public_key", entity_id |-> e, result |-> TRUE]
    /\ UNCHANGED <<now, pluginVars, routerVars, policyVars, authVars, clientVars, private_keys,
                   shared_keys, next_key>>

\* CryptoManager.derive_shared_key (crypto.py:146-195) with the cache being
\* `cache`: the key returned (Nothing: None) and the cache afterwards.
derive_shared_key(cache, local, remote) ==
    IF cache[<<local, remote>>] # Nothing
    THEN [key |-> cache[<<local, remote>>], cache |-> cache]
    ELSE IF private_keys[local] = 0 \/ public_keys[remote] = 0
         THEN [key |-> Nothing, cache |-> cache]
         ELSE LET k == Some(ECDH(private_keys[local], public_keys[remote]))
              IN  [key |-> k, cache |-> [cache EXCEPT ![<<local, remote>>] = k]]

\* CryptoManager.encrypt_message (crypto.py:264-308) with the cache being
\* `cache` and os.urandom returning `nonce`: the dictionary returned and the
\* cache afterwards.
encrypt_message_result(cache, sender, recipient, m, nonce) ==
    LET d == derive_shared_key(cache, sender, recipient)
    IN  IF d.key = Nothing
        THEN [out |-> Some(m), cache |-> d.cache]
        ELSE [out |-> Some([sender |-> sender, recipient |-> recipient,
                            encrypted |-> TRUE,
                            ciphertext |-> AesGcmEncrypt(d.key[1], nonce, json_dumps(m)),
                            nonce |-> nonce, id |-> m.id,
                            timestamp |-> m.timestamp]),
              cache |-> d.cache]

\* message.get('encrypted', False)
IsEncrypted(m) == "encrypted" \in DOMAIN m /\ m.encrypted

\* CryptoManager.decrypt_message (crypto.py:310-356) with the cache being
\* `cache`: the dictionary returned (Nothing: None) and the cache afterwards.
decrypt_message_result(cache, recipient, m) ==
    IF ~IsEncrypted(m) THEN [out |-> Some(m), cache |-> cache]
    ELSE LET d == derive_shared_key(cache, recipient, m.sender)
         IN  IF d.key = Nothing THEN [out |-> Nothing, cache |-> d.cache]
             ELSE LET pt == AesGcmDecrypt(d.key[1], m.nonce, m.ciphertext)
                  IN  [out |-> IF pt = Nothing THEN Nothing
                               ELSE Some(json_loads(pt[1])),
                       cache |-> d.cache]

\* A call of derive_shared_key.
DeriveSharedKey(local, remote) ==
    LET d == derive_shared_key(shared_keys, local, remote)
    IN  /\ shared_keys' = d.cache
        /\ last' = [op |-> "derive_shared_key", local |-> local,
                    remote |-> remote, key |-> d.key]
        /\ UNCHANGED <<now, pluginVars, routerVars, policyVars, authVars, clientVars, private_keys,
                       public_keys, next_key>>

\* A call of encrypt_message followed by a call of decrypt_message on what it
\* returned.
EncryptThenDecrypt(m, nonce) ==
    LET e == encrypt_message_result(shared_keys, m.sender, m.recipient, m, nonce)
        d == decrypt_message_result(e.cache, m.recipient, e.out[1])
    IN  /\ shared_keys' = d.cache
        /\ last' = [op |-> "encrypt_then_decrypt", msg |-> m,
                    envelope |-> e.out[1], out |-> d.out]
        /\ UNCHANGED <<now, pluginVars, routerVars, policyVars, authVars, clientVars, private_keys,
                       public_keys, next_key>>

\* A call of encrypt_message; what it returns travels to the recipient.
EncryptMessage(m, nonce) ==
    LET e == encrypt_message_result(shared_keys, m.sender, m.recipient, m, nonce)
    IN  /\ shared_keys' = e.cache
        /\ wire' = e.out
        /\ last' = [op |-> "encrypt_message", msg |-> m, out |-> e.out,
                    key |-> derive_shared_key(shared_keys, m.sender, m.recipient).key]
        /\ UNCHANGED <<now, pluginVars, routerVars, policyVars, authVars, private_keys,
                       public_keys, next_key, security_enabled, sessionVars>>

\* The envelope in flight is altered: a byte of its ciphertext is flipped.
Tamper ==
    /\ wire # Nothing /\ IsEncrypted(wire[1]) /\ wire[1].ciphertext.intact
    /\ wire' = Some([wire[1] EXCEPT !.ciphertext.intact = FALSE])
    /\ last' = Idle
    /\ UNCHANGED <<now, pluginVars, routerVars, policyVars, authVars, cryptoVars,
                   security_enabled, sessionVars>>

\* ------------------------------------------------- registry.py: Registry
\* A register_entity without the test of entity.id: it binds the id to the
\* entity in every case.
register_entity_overwrite(o) ==
    /\ entities' = [entities EXCEPT ![ObjId(o)] = o]
    /\ last' = [op |-> "register_entity", obj |-> o, result |-> TRUE]
    /\ UNCHANGED <<now, pluginVars, core_entities, handlers, policyVars, authVars, cryptoVars, clientVars>>

\* Registry.register_entity (registry.py:24-38)
register_entity(o) ==
    /\ IF entities[ObjId(o)] # None
       THEN /\ last' = [op |-> "register_entity", obj |-> o, result |-> FALSE]
            /\ UNCHANGED entities
       ELSE /\ entities' = [entities EXCEPT ![ObjId(o)] = o]
            /\ last' = [op |-> "register_entity", obj |-> o, result |-> TRUE]
    /\ UNCHANGED <<now, pluginVars, core_entities, handlers, policyVars, authVars, cryptoVars, clientVars>>

\* An unregister_entity that reports success without deleting the entry.
unregister_entity_keep(id) ==
    /\ last' = [op |-> "unregister_entity", id |-> id,
                result |-> entities[id] # None]
    /\ UNCHANGED <<now, pluginVars, routerVars, policyVars, authVars, cryptoVars, clientVars>>

\* Registry.unregister_entity (registry.py:40-54)
unregister_entity(id) ==
    /\ IF entities[id] = None
       THEN /\ last' = [op |-> "unregister_entity", id |-> id, result |-> FALSE]
            /\ UNCHANGED entities
       ELSE /\ entities' = [entities EXCEPT ![id] = None]
            /\ last' = [op |-> "unregister_entity", id |-> id, result |-> TRUE]
    /\ UNCHANGED <<now, pluginVars, core_entities, handlers, policyVars, authVars, cryptoVars, clientVars>>

\* Registry.get_entity (registry.py:56-66)
get_entity(id) ==
    /\ last' = [op |-> "get_entity", id |-> id, result |-> entities[id]]
    /\ UNCHANGED <<now, pluginVars, routerVars, policyVars, authVars, cryptoVars, clientVars>>

\* self.entities.get(id) of a dict keyed by the registered ids.
Lookup(reg, id) == IF id \in DOMAIN reg THEN reg[id] ELSE None

\* What a route call did: the entity objects whose process_message it
\* called, in order; the handler invocations made, as a sequence of
\* <<entity object, handler position>>; the value it returned; and the error
\* it raised to its caller (None: it returned normally).
RouteOutcome(reg, m) ==
    LET o == Lookup(reg, m.recipient)
    IN  IF o = None
        THEN [delivered |-> <<>>, invoked |-> <<>>, result |-> Nothing,
              error |-> None]
        ELSE LET r == process_message(o, handlers[o])
             IN  [delivered |-> <<o>>,
                  invoked |-> [i \in 1..Len(r.invoked) |-> <<o, r.invoked[i]>>],
                  result |-> r.result, error |-> None]

\* Registry.route_message (registry.py:83-98)
route_message(m) ==
    /\ last' = [op |-> "route_message", router |-> "Registry", msg |-> m]
               @@ RouteOutcome(entities, m)
    /\ UNCHANGED <<now, pluginVars, routerVars, policyVars, authVars, cryptoVars, clientVars>>

\* ------------------------------------------ protocol_core.py: ProtocolCore
\* ProtocolCore.register_entity (protocol_core.py:258-266)
core_register_entity(o) ==
    /\ core_entities' = [core_entities EXCEPT ![ObjId(o)] = o]
    /\ last' = [op |-> "core_register_entity", obj |-> o]
    /\ UNCHANGED <<now, pluginVars, entities, handlers, policyVars, authVars, cryptoVars, clientVars>>

\* ProtocolCore.unregister_entity (protocol_core.py:268-277)
core_unregister_entity(id) ==
    /\ core_entities' = [core_entities EXCEPT ![id] = None]
    /\ last' = [op |-> "core_unregister_entity", id |-> id]
    /\ UNCHANGED <<now, pluginVars, entities, handlers, policyVars, authVars, cryptoVars, clientVars>>

\* ProtocolCore.route_message (protocol_core.py:279-298)
core_route_message(m) ==
    /\ last' = [op |-> "route_message", router |-> "ProtocolCore", msg |-> m]
               @@ RouteOutcome(core_entities, m)
    /\ UNCHANGED <<now, pluginVars, routerVars, policyVars, authVars, cryptoVars, clientVars>>

\* ------------------------------------------------- client.py: UAP_Client
\* The get_instance functions that connect and send_message import from
\* regennexus.registry.registry, regennexus.security.security and
\* regennexus.protocol.protocol_core: they return the process-wide registry,
\* the crypto manager and the protocol core.
get_instance == TRUE

\* A _process_messages task: where it stands (pc: "get" in
\* message_queue.get(), "handler" in a handler's await, "done" after it
\* ended), the queue item it is processing as a one-element sequence, the
\* position in message_handlers of the handler it is in, and the position in
\* log of that invocation.
NewTask == [pc |-> "get", msg |-> <<>>, i |-> 0, entry |-> 0]

\* The id of a queue item: a dictionary's id, or "None" for None.
MsgId(q) == IF q = Nothing THEN "None" ELSE q[1].id

\* What a handler does when it is awaited: it returns, it raises an
\* Exception, or it raises asyncio.CancelledError, which is a BaseException
\* and no Exception (a future the handler awaits was cancelled).
ClientHandlerKinds == {"ok", "raise", "cancel"}

\* How the await of a handler of kind k ends.
Outcome(k) ==
    CASE k = "ok" -> "return"
      [] k = "raise" -> "Exception"
      [] k = "cancel" -> "CancelledError"

\* UAP_Client.connect (client.py:47-83), registry_url being "local".
connect(c) ==
    /\ get_instance
    /\ Len(tasks[c]) < MaxTasks
    /\ security_manager' = [security_manager EXCEPT ![c] = @ \/ security_enabled[c]]
    /\ tasks' = [tasks EXCEPT ![c] = Append(@, NewTask)]
    /\ processing_task' = [processing_task EXCEPT ![c] = Len(tasks[c]) + 1]
    /\ connected' = [connected EXCEPT ![c] = TRUE]
    /\ history' = [history EXCEPT ![c] = @ \cup {"connect"}]
    /\ last' = [op |-> "connect", client |-> c, result |-> TRUE]
    /\ UNCHANGED <<now, pluginVars, routerVars, policyVars, authVars, cryptoVars,
                   security_enabled, message_handlers, message_queue, log,
                   accepted, wire>>

\* task.cancel() followed by await task (client.py:97-102): CancelledError is
\* raised in the task where it is suspended.  In message_queue.get() the
\* loop's except clause catches it and the task ends; in a handler's await it
\* ends the handler, passes the inner except clause (CancelledError is no
\* Exception) and ends the task.
Cancelled(task) == [task EXCEPT !.pc = "done"]

\* UAP_Client.disconnect (client.py:85-114)
disconnect(c) ==
    LET t == processing_task[c]
        inflight == t # 0 /\ tasks[c][t].pc = "handler"
    IN  /\ connected' = [connected EXCEPT ![c] = FALSE]
        /\ processing_task' = [processing_task EXCEPT ![c] = 0]
        /\ tasks' = IF t = 0 THEN tasks
                    ELSE [tasks EXCEPT ![c][t] = Cancelled(@)]
        /\ log' = IF inflight
                  THEN [log EXCEPT ![c][tasks[c][t].entry].end = "cancelled"]
                  ELSE log
        /\ history' = [history EXCEPT ![c] = @ \cup {"disconnect"}]
        /\ last' = [op |-> "disconnect", client |-> c, result |-> TRUE,
                    inflight |-> inflight]
        /\ UNCHANGED <<now, pluginVars, routerVars, policyVars, authVars, cryptoVars,
                       security_enabled, security_manager, message_handlers,
                       message_queue, accepted, wire>>

\* UAP_Client.register_message_handler (client.py:116-124)
register_message_handler(c, k) ==
    /\ Len(message_handlers[c]) < MaxClientHandlers
    /\ message_handlers' = [message_handlers EXCEPT ![c] = Append(@, k)]
    /\ last' = [op |-> "register_message_handler", client |-> c, handler |-> k]
    /\ UNCHANGED <<now, pluginVars, routerVars, policyVars, authVars, cryptoVars,
                   security_enabled, connected, security_manager,
                   processing_task, tasks, message_queue, log, accepted,
                   history, wire>>

\* list.remove(x): the list without the first element equal to x.
RECURSIVE Remove(_, _)
Remove(list, x) ==
    IF list = <<>> THEN <<>>
    ELSE IF Head(list) = x THEN Tail(list)
    ELSE <<Head(list)>> \o Remove(Tail(list), x)

\* UAP_Client.unregister_message_handler (client.py:126-140)
unregister_message_handler(c, k) ==
    /\ IF \E i \in 1..Len(message_handlers[c]) : message_handlers[c][i] = k
       THEN /\ message_handlers' = [message_handlers EXCEPT ![c] = Remove(@, k)]
            /\ last' = [op |-> "unregister_message_handler", client |-> c,
                        handler |-> k, result |-> TRUE]
       ELSE /\ UNCHANGED message_handlers
            /\ last' = [op |-> "unregister_message_handler", client |-> c,
                        handler |-> k, result |-> FALSE]
    /\ UNCHANGED <<now, pluginVars, routerVars, policyVars, authVars, cryptoVars,
                   security_enabled, connected, security_manager,
                   processing_task, tasks, message_queue, log, accepted,
                   history, wire>>

\* The dictionaries a caller passes to send_message of session c: with any
\* sender, or without a sender.
SendMessages(c) ==
    [sender : Ids, recipient : (Ids \ {c}) \cup {Broadcast}, intent : {"secret"},
     payload : Payloads, id : {"m1"}, timestamp : {0}]
    \cup [recipient : (Ids \ {c}) \cup {Broadcast}, intent : {"secret"},
          payload : Payloads, id : {"m1"}, timestamp : {0}]

\* if 'sender' not in message: message['sender'] = self.entity_id
\* (client.py:161-162)
WithSender(c, m) ==
    IF "sender" \in DOMAIN m THEN m ELSE [sender |-> c] @@ m

\* UAP_Client.send_message (client.py:142-206), registry_url being "local".
\* `routed` is the dictionary handed to route_message of the protocol core
\* that get_instance returns; `returns` tells whether that call returned
\* (send_message then returns True) or raised (it returns False).
send_message(c, m, nonce, returns) ==
    IF ~connected[c]
    THEN /\ last' = [op |-> "send_message", client |-> c, msg |-> m,
                     routed |-> Nothing, result |-> FALSE]
         /\ UNCHANGED <<now, pluginVars, routerVars, policyVars, authVars, cryptoVars,
                        clientVars>>
    ELSE LET secure == security_enabled[c] /\ security_manager[c]
                          /\ m.recipient # Broadcast
             ms == WithSender(c, m)
             e == IF secure
                  THEN encrypt_message_result(shared_keys, c, m.recipient, ms, nonce)
                  ELSE [out |-> Some(ms), cache |-> shared_keys]
         IN  /\ shared_keys' = e.cache
             /\ wire' = e.out
             /\ last' = [op |-> "send_message", client |-> c, msg |-> m,
                         routed |-> e.out, result |-> returns,
                         secure |-> secure,
                         key |-> IF secure
                                 THEN derive_shared_key(shared_keys, c, m.recipient).key
                                 ELSE Nothing]
             /\ UNCHANGED <<now, pluginVars, routerVars, policyVars, authVars, private_keys,
                            public_keys, next_key, security_enabled, sessionVars>>

\* A caller has the dictionary m to hand to receive_message.
Deliver(m) ==
    /\ wire' = Some(m)
    /\ last' = Idle
    /\ UNCHANGED <<now, pluginVars, routerVars, policyVars, authVars, cryptoVars,
                   security_enabled, sessionVars>>

\* UAP_Client.receive_message (client.py:208-234) of the dictionary in
\* flight.  The queue holds optional dictionaries: Nothing is Python's None.
receive_message(c) ==
    /\ wire # Nothing
    /\ wire[1].recipient \in {c, Broadcast}
    /\ Len(accepted[c]) < MaxQueue
    /\ LET m == wire[1]
           decrypts == security_enabled[c] /\ security_manager[c] /\ IsEncrypted(m)
           d == IF decrypts THEN decrypt_message_result(shared_keys, c, m)
                ELSE [out |-> Some(m), cache |-> shared_keys]
       IN  /\ shared_keys' = d.cache
           /\ message_queue' = [message_queue EXCEPT ![c] = Append(@, d.out)]
           /\ accepted' = [accepted EXCEPT ![c] = Append(@, MsgId(d.out))]
           /\ last' = [op |-> "receive_message", client |-> c, msg |-> m,
                       decrypts |-> decrypts, queued |-> Some(d.out),
                       result |-> TRUE]
    /\ wire' = Nothing
    /\ UNCHANGED <<now, pluginVars, routerVars, policyVars, authVars, private_keys,
                   public_keys, next_key, security_enabled, connected,
                   security_manager, processing_task, tasks, message_handlers,
                   log, history>>

\* The for loop of _process_messages (client.py:243-247) moves on from
\* position i of the list hs for the queue item q: the task awaits the
\* handler at position i + 1, its invocation being entry number `entry` of
\* the log, or, the list being exhausted, calls task_done and goes back to
\* message_queue.get().
next_handler(task, hs, q, entry) ==
    IF task.i < Len(hs)
    THEN [pc |-> "handler", msg |-> <<q>>, i |-> task.i + 1, entry |-> entry]
    ELSE NewTask

\* A handler's await ends with `outcome` in a task with handler list hs.
\* Stopping the task whenever the handler raised.
after_handler_stop(task, hs, outcome, entry) ==
    IF outcome # "return" THEN [task EXCEPT !.pc = "done"]
    ELSE next_handler(task, hs, task.msg[1], entry)

\* A handler's await ends with `outcome` (client.py:244-256): an Exception
\* is caught and logged by the inner except clause and the loop moves on, as
\* it does when the handler returns; a CancelledError passes the inner
\* clause, and the outer one breaks out of the while loop.
after_handler(task, hs, outcome, entry) ==
    IF outcome = "CancelledError" THEN [task EXCEPT !.pc = "done"]
    ELSE next_handler(task, hs, task.msg[1], entry)

\* The log entry of the invocation that task `task` of a session with handler
\* list hs starts, if it starts one.
Invocations(task, hs) ==
    IF task.pc = "handler"
    THEN <<[handler |-> task.i, kind |-> hs[task.i], id |-> MsgId(task.msg[1]),
            end |-> "running"]>>
    ELSE <<>>

\* _process_messages (client.py:236-258): task t of session c, waiting in
\* message_queue.get(), takes the head of the queue and awaits the first
\* handler.
process_messages_get(c, t) ==
    /\ t \in 1..Len(tasks[c])
    /\ tasks[c][t].pc = "get"
    /\ message_queue[c] # <<>>
    /\ LET q == Head(message_queue[c])
           task == next_handler(NewTask, message_handlers[c], q, Len(log[c]) + 1)
       IN  /\ tasks' = [tasks EXCEPT ![c][t] = task]
           /\ log' = [log EXCEPT ![c] = @ \o Invocations(task, message_handlers[c])]
           /\ last' = [op |-> "process_messages_get", client |-> c, task |-> t,
                       msg |-> q]
    /\ message_queue' = [message_queue EXCEPT ![c] = Tail(@)]
    /\ UNCHANGED <<now, pluginVars, routerVars, policyVars, authVars, cryptoVars,
                   security_enabled, connected, security_manager,
                   processing_task, message_handlers, accepted, history, wire>>

\* _process_messages (client.py:243-256): the handler that task t of session
\* c awaits returns or raises.
process_messages_handler(c, t) ==
    /\ t \in 1..Len(tasks[c])
    /\ tasks[c][t].pc = "handler"
    /\ LET old == tasks[c][t]
           outcome == Outcome(log[c][old.entry].kind)
           ended == [log EXCEPT ![c][old.entry].end = outcome]
           task == after_handler(old, message_handlers[c], outcome, Len(log[c]) + 1)
       IN  /\ tasks' = [tasks EXCEPT ![c][t] = task]
           /\ log' = [ended EXCEPT ![c] = @ \o Invocations(task, message_handlers[c])]
           /\ last' = [op |-> "process_messages_handler", client |-> c,
                       task |-> t, outcome |-> outcome, was |-> old]
    /\ UNCHANGED <<now, pluginVars, routerVars, policyVars, authVars, cryptoVars,
                   security_enabled, connected, security_manager,
                   processing_task, message_handlers, message_queue, accepted,
                   history, wire>>


\* UAP_Client.register_capabilities (client.py:260-300), find_entities
\* (client.py:302-332) and heartbeat (client.py:334-360), registry_url being
\* "local": a session that is not connected returns False (find_entities:
\* the empty list); a connected one calls the registry that get_instance
\* returned, and `returns` tells whether that call returned or raised.
registry_call(c, op, returns) ==
    /\ last' = [op |-> op, client |-> c, result |-> connected[c] /\ returns]
    /\ UNCHANGED <<now, pluginVars, routerVars, policyVars, authVars, cryptoVars, clientVars>>

\* The clock advances.
Tick ==
    /\ now < MaxTime
    /\ now' = now + 1
    /\ last' = Idle
    /\ UNCHANGED <<pluginVars, routerVars, policyVars, authVars, cryptoVars, clientVars>>

\* ------------------------------------------- plugins/base.py: DevicePlugin
\* A command or capability name is the sequence of its dot-separated
\* segments, so that f'command.{command}' is <<"command">> \o command.
\* The two plugin objects: a DevicePlugin constructed with device_type
\* 'sensor' and an IoTPlugin.
Plugins == {"device", "iot"}
device_type(p) == IF p = "iot" THEN "iot" ELSE "sensor"

\* The commands a caller registers handlers for, and the handler it passes.
CommandPool == {<<"status">>, <<"read">>}
CallerHandler == "handler"

\* The commands IoTPlugin.initialize registers, in the order of the code.
IoTCommands ==
    << <<"iot", "mqtt", "connect">>, <<"iot", "mqtt", "publish">>,
       <<"iot", "mqtt", "subscribe">>, <<"iot", "http", "get">>,
       <<"iot", "http", "post">>, <<"iot", "http", "put">>,
       <<"iot", "http", "delete">> >>

\* The bound method IoTPlugin.initialize registers for each of them.
IoTHandler(c) == "_handle_" \o c[2] \o "_" \o c[3]

Elements(s) == {s[i] : i \in DOMAIN s}

Commands == CommandPool \cup {<<"capabilities">>} \cup Elements(IoTCommands)

MetadataKeys == {"device_type", "version", "status", "mqtt_connected"}

NoMetadata == [k \in MetadataKeys |-> None]

\* The fields of the plugin p, as one record.
PluginState(p) ==
    [initialized |-> initialized[p], capabilities |-> capabilities[p],
     metadata |-> metadata[p], command_handlers |-> command_handlers[p]]

Capability(command) == <<"command">> \o command

\* DevicePlugin.register_command_handler on the fields s.
register_command_handler(s, command, handler) ==
    LET capability == Capability(command)
    IN  [s EXCEPT !.command_handlers[command] = handler,
                  !.capabilities =
                      IF capability \notin Elements(@)
                      THEN Append(@, capability) ELSE @]

\* DevicePlugin.unregister_command_handler on the fields s.
unregister_command_handler(s, command) ==
    LET capability == Capability(command)
    IN  IF s.command_handlers[command] # None
        THEN [state |-> [s EXCEPT !.command_handlers[command] = None,
                                  !.capabilities =
                                      IF capability \in Elements(@)
                                      THEN Remove(@, capability) ELSE @],
              returns |-> TRUE]
        ELSE [state |-> s, returns |-> FALSE]

\* What the calls initialize makes on its protocol do: there is no protocol
\* (None), they return, or one of them raises.
Protocols == {"None", "returns", "raises"}

\* DevicePlugin.initialize on the fields s of the plugin p.
initialize(s, p, protocol) ==
    LET s1 == [s EXCEPT
                 !.capabilities = << <<"device">>, <<device_type(p)>>,
                                     <<"status">>, <<"command">> >>,
                 !.metadata = [NoMetadata EXCEPT
                                 !["device_type"] = device_type(p),
                                 !["version"] = "0.1.1",
                                 !["status"] = "initializing"]]
        s2 == register_command_handler(s1, <<"status">>,
                                       "_handle_status_command")
        s3 == register_command_handler(s2, <<"capabilities">>,
                                       "_handle_capabilities_command")
    IN  IF protocol = "raises"
        THEN [state |-> s3, returns |-> FALSE]
        ELSE [state |-> [s3 EXCEPT !.initialized = TRUE,
                                   !.metadata["status"] = "ready"],
              returns |-> TRUE]

\* The handlers IoTPlugin.initialize registers, from the i-th on.
RECURSIVE RegisterIoTCommands(_, _)
RegisterIoTCommands(s, i) ==
    IF i > Len(IoTCommands) THEN s
    ELSE RegisterIoTCommands(
             register_command_handler(s, IoTCommands[i],
                                      IoTHandler(IoTCommands[i])), i + 1)

\* IoTPlugin.initialize up to its call of the base initialize.
IoTPrepare(s) ==
    LET s1 == [s EXCEPT !.capabilities = @ \o IoTCommands]
        s2 == RegisterIoTCommands(s1, 1)
    IN  [s2 EXCEPT !.metadata["device_type"] = "iot",
                   !.metadata["mqtt_connected"] = "False"]

SetPlugin(p, s) ==
    /\ initialized' = [initialized EXCEPT ![p] = s.initialized]
    /\ capabilities' = [capabilities EXCEPT ![p] = s.capabilities]
    /\ metadata' = [metadata EXCEPT ![p] = s.metadata]
    /\ command_handlers' =
           [command_handlers EXCEPT ![p] = s.command_handlers]
    /\ UNCHANGED <<now, routerVars, policyVars, authVars, cryptoVars,
                   clientVars>>

\* A call of p.register_command_handler(command, handler).
RegisterCommandHandler(p, command) ==
    /\ SetPlugin(p, register_command_handler(PluginState(p), command,
                                             CallerHandler))
    /\ last' = [op |-> "register_command_handler", plugin |-> p,
                command |-> command, returns |-> TRUE]

\* A call of p.unregister_command_handler(command).
UnregisterCommandHandler(p, command) ==
    LET r == unregister_command_handler(PluginState(p), command)
    IN  /\ SetPlugin(p, r.state)
        /\ last' = [op |-> "unregister_command_handler", plugin |-> p,
                    command |-> command, returns |-> r.returns]

\* A call of p.initialize(): IoTPlugin.initialize for the IoT plugin, whose
\* result does not depend on what the base initialize returned.  before is
\* the plugin's fields when DevicePlugin.initialize was entered.
Initialize(p, protocol) ==
    LET entry == IF p = "iot" THEN IoTPrepare(PluginState(p))
                 ELSE PluginState(p)
        r == initialize(entry, p, protocol)
    IN  /\ SetPlugin(p, r.state)
        /\ last' = [op |-> "initialize", plugin |-> p, before |-> entry,
                    returns |-> IF p = "iot" THEN TRUE ELSE r.returns]

\* ------------------------------------------------------------ behaviours
InitExceptSecurity ==
    /\ now = 0
    /\ entities = [i \in Ids |-> None]
    /\ core_entities = [i \in Ids |-> None]
    /\ handlers = [o \in Objs |-> <<>>]
    /\ entity_roles = [i \in Ids |-> {}]
    /\ role_permissions = [r \in Roles |-> {}]
    /\ policies = [p \in PolicyIds |-> Nothing]
    /\ ca_key = 0
    /\ revoked_tokens = {}
    /\ revoked_certificates = {}
    /\ private_keys = [i \in Ids |-> 0]
    /\ public_keys = [i \in Ids |-> 0]
    /\ shared_keys = [p \in Ids \X Ids |-> Nothing]
    /\ next_key = 0
    /\ connected = [i \in Ids |-> FALSE]
    /\ security_manager = [i \in Ids |-> FALSE]
    /\ processing_task = [i \in Ids |-> 0]
    /\ tasks = [i \in Ids |-> <<>>]
    /\ message_handlers = [i \in Ids |-> <<>>]
    /\ message_queue = [i \in Ids |-> <<>>]
    /\ log = [i \in Ids |-> <<>>]
    /\ accepted = [i \in Ids |-> <<>>]
    /\ history = [i \in Ids |-> {}]
    /\ wire = Nothing
    /\ initialized = [p \in Plugins |-> FALSE]
    /\ capabilities = [p \in Plugins |-> <<>>]
    /\ metadata = [p \in Plugins |-> NoMetadata]
    /\ command_handlers = [p \in Plugins |-> [c \in Commands |-> None]]
    /\ last = Idle

\* Every session is constructed with the default security_enabled = True.
Init ==
    /\ InitExceptSecurity
    /\ security_enabled = [i \in Ids |-> TRUE]

\* Sessions constructed with either value of security_enabled.
InitClient ==
    /\ InitExceptSecurity
    /\ security_enabled \in [Ids -> BOOLEAN]

Handlers ==
    \E o \in Objs, k \in HandlerKinds : RegisterHandler(o, k)

NextRegistry ==
    \/ \E o \in Objs : register_entity(o)
    \/ \E i \in Ids : unregister_entity(i)
    \/ \E i \in Ids : get_entity(i)
    \/ Handlers
    \/ \E m \in PlainMessages : route_message(m)

NextExpiry ==
    \/ \E o \in Objs : register_entity(o)
    \/ Handlers
    \/ \E m \in TtlMessages(now) : route_message(m)
    \/ Tick

NextPolicy ==
    \/ \E def \in PolicyPool : add_policy("p1", def)
    \/ remove_policy("p1")
    \/ \E e \in Ids, r \in Roles : assign_role(e, r)
    \/ \E e \in Ids, r \in Roles : revoke_role(e, r)
    \/ \E r \in Roles, ps \in SUBSET PermPool : define_role_permissions(r, ps)

\* The policy engine on its own: definitions of every shape, and the two
\* questions a caller asks, all at one time; a context brings its own time.
NextPolicyEngine ==
    \/ \E def \in PolicyDefs : add_policy("p1", def)
    \/ remove_policy("p1")
    \/ \E e \in Ids, r \in Roles : assign_role(e, r)
    \/ \E e \in Ids, r \in Roles : revoke_role(e, r)
    \/ \E r \in Roles, ps \in SUBSET GrantPool : define_role_permissions(r, ps)
    \/ \E e \in Ids, resource \in Resources, action \in Actions :
          CheckPermission(e, resource \o <<":">> \o action)
    \/ \E e \in Ids, resource \in Resources, action \in Actions,
          context \in Contexts :
          EvaluatePolicy(e, resource, action, context)

NextMessage ==
    \/ Tick
    \/ \E request \in Requests(now), intent \in Intents,
          payload \in ResponsePayloads :
          CreateResponse(request, intent, payload)
    \/ \E request \in Requests(now), error_code \in {"E1", "E2"} :
          CreateErrorResponse(request, error_code, "failed")
    \/ \E request \in Requests(now) : CreateAckResponse(request)

\* Policies whose walk ends at the first, at the second or at none: one
\* that allows every question, one for one resource, one with a condition
\* on an attribute.
WalkPool ==
    {Policy(Nothing, Nothing, Nothing, Nothing, Nothing),
     Policy(Some(List({<<"b">>})), Nothing,
            Some(EntityDict(Nothing, Some({"b"}))), Nothing, Nothing),
     Policy(Nothing, Nothing, Nothing,
            Some(<<Attribute("level", Some("gt"), IntV(1))>>), Nothing)}

\* Two policies, the second inserted after the first or alone, and the
\* questions asked of them.
NextPolicyWalk ==
    \/ \E def \in WalkPool :
          /\ policies["p2"] = Nothing \/ policies["p1"] # Nothing
          /\ add_policy("p1", def)
    \/ \E def \in WalkPool : add_policy("p2", def)
    \/ \E pid \in PolicyIds : remove_policy(pid)
    \/ \E e \in Ids, r \in Roles : assign_role(e, r)
    \/ \E r \in Roles, ps \in SUBSET PermPool : define_role_permissions(r, ps)
    \/ \E e \in Ids, resource \in {<<"b">>, <<"a", "a">>}, action \in Actions,
          context \in Contexts :
          EvaluatePolicy(e, resource, action, context)

NextAuthorize ==
    \/ \E o \in Objs : register_entity(o)
    \/ Handlers
    \/ NextPolicy
    \/ \E m \in IntentMessages : route_message(m)

NextCore ==
    \/ \E o \in Objs : core_register_entity(o)
    \/ \E i \in Ids : core_unregister_entity(i)
    \/ Handlers
    \/ \E m \in PlainMessages : core_route_message(m)

NextAuth ==
    \/ setup_certificate_authority
    \/ \E tok \in PresentedTokens(now) : validate_token(tok)
    \/ \E id \in TokenIds : revoke_token(id)
    \/ \E c \in PresentedCerts(now), k \in Keys :
          verify_entity_certificate(c, CaCert(k, CaSubject))
    \/ \E c \in PresentedCerts(now), e \in Ids :
          verify_entity_authentication(e, c, "ka")
    \/ \E serial \in 0..MaxTime : revoke_certificate(serial)
    \/ Tick

\* The certificates presented to the certificate checks at time t: the
\* presented ones, those issued by a CA of another name, and those with the
\* signature field missing.
OtherSubject == "Other CA"
CertInputs(t) ==
    PresentedCerts(t)
    \cup {issue_entity_certificate("a", "ka", CaCert(k, OtherSubject), k, 0) :
            k \in 1..MaxCaKeys}
    \cup {[f \in DOMAIN c \ {"signature"} |-> c[f]] : c \in IssuedCerts(0)}

NextCert ==
    \/ setup_certificate_authority
    \/ \E c \in CertInputs(now), k \in Keys :
          verify_entity_certificate(c, CaCert(k, CaSubject))
    \/ \E c \in CertInputs(now), e \in Ids, pk \in {"ka", "kb"} :
          verify_entity_authentication(e, c, pk)
    \/ \E serial \in 0..MaxTime : revoke_certificate(serial)
    \/ Tick

NextKeys ==
    \/ \E e \in Ids : generate_keypair(e)
    \/ \E e \in Ids, n \in 1..next_key, pub \in {Nothing} \cup {Some(k) : k \in 1..next_key} :
          import_keypair(e, n, pub)
    \/ \E e \in Ids, n \in 1..next_key : import_public_key(e, n)
    \/ \E l \in Ids : \E r \in Ids \ {l} : DeriveSharedKey(l, r)

NextCrypto ==
    \/ NextKeys
    \/ \E m \in DictMessages, nonce \in Nonces :
          m.sender # m.recipient /\ EncryptThenDecrypt(m, nonce)

\* A session's entity is given its key pair once.
NewKeypair ==
    \E e \in Ids : private_keys[e] = 0 /\ generate_keypair(e)

\* The entities that run a client session.
Sessions == {"b"}

NextSend ==
    \/ NewKeypair
    \/ \E c \in Sessions : connect(c)
    \/ \E c \in Sessions : disconnect(c)
    \/ \E m \in DictMessages :
          m.sender # m.recipient /\ EncryptMessage(m, "n1")
    \/ \E c \in Sessions, returns \in BOOLEAN :
          \E m \in SendMessages(c) : send_message(c, m, "n1", returns)

NextReceive ==
    \/ NewKeypair
    \/ \E c \in Sessions : connect(c)
    \/ \E c \in Sessions : register_message_handler(c, "ok")
    \/ \E m \in DictMessages :
          m.sender # m.recipient /\ EncryptMessage(m, "n1")
    \/ Tamper
    \/ \E c \in Sessions : receive_message(c)
    \/ \E c \in Sessions, t \in 1..MaxTasks : process_messages_get(c, t)
    \/ \E c \in Sessions, t \in 1..MaxTasks : process_messages_handler(c, t)

\* The dictionaries handed to receive_message when message processing is
\* followed step by step: each id at most once.
SessionMessages ==
    [sender : {"a"}, recipient : Sessions, intent : {"secret"},
     payload : Payloads, id : {"m1", "m2"}, timestamp : {0}]

NextSession ==
    \/ \E c \in Sessions : connect(c)
    \/ \E c \in Sessions : disconnect(c)
    \/ \E c \in Sessions, k \in ClientHandlerKinds : register_message_handler(c, k)
    \/ \E m \in SessionMessages :
          /\ \A i \in 1..Len(accepted[m.recipient]) : accepted[m.recipient][i] # m.id
          /\ Deliver(m)
    \/ \E c \in Sessions : receive_message(c)
    \/ \E c \in Sessions, t \in 1..MaxTasks : process_messages_get(c, t)
    \/ \E c \in Sessions, t \in 1..MaxTasks : process_messages_handler(c, t)

\* A session whose handlers are registered between dispatches, each
\* function once, and unregistered at any time: by a handler itself or by
\* another coroutine while a handler is awaited.
NextDispatch ==
    \/ \E c \in Sessions : connect(c)
    \/ \E c \in Sessions, k \in ClientHandlerKinds :
          /\ \A t \in 1..Len(tasks[c]) : tasks[c][t].pc # "handler"
          /\ \A i \in 1..Len(message_handlers[c]) : message_handlers[c][i] # k
          /\ register_message_handler(c, k)
    \/ \E c \in Sessions, k \in ClientHandlerKinds : unregister_message_handler(c, k)
    \/ \E m \in SessionMessages :
          /\ \A i \in 1..Len(accepted[m.recipient]) : accepted[m.recipient][i] # m.id
          /\ Deliver(m)
    \/ \E c \in Sessions : receive_message(c)
    \/ \E c \in Sessions, t \in 1..MaxTasks : process_messages_get(c, t)
    \/ \E c \in Sessions, t \in 1..MaxTasks : process_messages_handler(c, t)

SessionOps == {"register_capabilities", "find_entities", "heartbeat"}

NextOps ==
    \/ \E c \in Sessions : connect(c)
    \/ \E c \in Sessions : disconnect(c)
    \/ \E c \in Sessions, k \in ClientHandlerKinds : register_message_handler(c, k)
    \/ \E c \in Sessions, k \in ClientHandlerKinds : unregister_message_handler(c, k)
    \/ \E c \in Sessions, returns \in BOOLEAN :
          \E m \in SendMessages(c) : send_message(c, m, "n1", returns)
    \/ \E c \in Sessions, op \in SessionOps, returns \in BOOLEAN :
          registry_call(c, op, returns)

NextPlugin ==
    \/ \E p \in Plugins, c \in CommandPool : RegisterCommandHandler(p, c)
    \/ \E p \in Plugins, c \in CommandPool : UnregisterCommandHandler(p, c)
    \/ \E p \in Plugins, protocol \in Protocols : Initialize(p, protocol)

Next ==
    \/ NextPlugin
    \/ NextRegistry \/ NextExpiry \/ NextAuthorize \/ NextCore \/ NextAuth
    \/ NextCert
    \/ NextCrypto \/ NextSend \/ NextReceive \/ NextSession \/ NextOps

SpecRegistry == Init /\ [][NextRegistry]_vars
SpecExpiry == Init /\ [][NextExpiry]_vars
SpecAuthorize == Init /\ [][NextAuthorize]_vars
SpecPolicy == Init /\ [][NextPolicyEngine]_vars
SpecPolicyWalk == Init /\ [][NextPolicyWalk]_vars
SpecMessage == Init /\ [][NextMessage]_vars
SpecCore == Init /\ [][NextCore]_vars
SpecAuth == Init /\ [][NextAuth]_vars
SpecCert == Init /\ [][NextCert]_vars
SpecCrypto == Init /\ [][NextCrypto]_vars
SpecSend == InitClient /\ [][NextSend]_vars
SpecReceive == InitClient /\ [][NextReceive]_vars
SpecSession == Init /\ [][NextSession]_vars
SpecDispatch == Init /\ [][NextDispatch]_vars
SpecOps == Init /\ [][NextOps]_vars
SpecPlugin == Init /\ [][NextPlugin]_vars
Spec == Init /\ [][Next]_vars

\* ================================================================ claims
IsRoute == last.op = "route_message"

\* The entity objects registered with the router that made the last call.
Registered ==
    IF last.router = "Registry"
    THEN {entities[i] : i \in {j \in Ids : entities[j] # None}}
    ELSE {core_entities[i] : i \in {j \in Ids : core_entities[j] # None}}

\* C1: a non-broadcast message reaches a handler of its recipient only if
\* evaluate_policy(sender, resource = recipient, action = intent) is true;
\* when the policy engine denies, no handler is invoked.
C1_DeniedIsNotDelivered ==
    (IsRoute /\ last.msg.recipient # Broadcast
       /\ evaluate_policy(last.msg.sender, Chars(last.msg.recipient),
                          Chars(last.msg.intent), NoContext, now) # "True")
    => last.invoked = <<>>

\* C2: a message routed to "*" is delivered exactly once to every registered
\* entity other than the sender, and not to the sender.
C2_BroadcastReachesAllButSender ==
    (IsRoute /\ last.msg.recipient = Broadcast)
    => /\ \A o \in Registered :
            ObjId(o) # last.msg.sender =>
               Cardinality({i \in 1..Len(last.delivered) : last.delivered[i] = o}) = 1
       /\ \A i \in 1..Len(last.delivered) :
            ObjId(last.delivered[i]) # last.msg.sender

\* C3: a message with a ttl that is routed when now > timestamp + ttl is
\* dropped: no handler is invoked with it.
C3_ExpiredIsDropped ==
    (IsRoute /\ is_expired(last.msg, now)) => last.invoked = <<>>

\* C4: routing a non-broadcast message to an id that is not registered fails
\* with UnknownEntity, so that the caller can tell it from a delivery that
\* produced no response.
C4_UnknownRecipientFails ==
    (IsRoute /\ last.msg.recipient # Broadcast
       /\ \A o \in Registered : ObjId(o) # last.msg.recipient)
    => last.error = "UnknownEntity"

\* C6: once a token id (a certificate serial) is revoked, every later
\* validate_token of a token with that id (verify_entity_certificate or
\* verify_entity_authentication of a certificate with that serial) returns
\* false; and no step removes an entry from a revocation set.
C6_RevocationIsFinal ==
    [][/\ revoked_tokens \subseteq revoked_tokens'
       /\ revoked_certificates \subseteq revoked_certificates'
       /\ (last'.op = "validate_token" /\ last'.token.token_id \in revoked_tokens)
             => ~last'.ok
       /\ (/\ last'.op \in {"verify_entity_certificate", "verify_entity_authentication"}
           /\ last'.cert.serial_number \in revoked_certificates)
             => ~last'.ok]_vars

\* A token signed by the current CA, not yet expired, whose id is revoked,
\* has just been validated, and was refused.
C6_Witness ==
    /\ last.op = "validate_token"
    /\ last.token.token_id \in revoked_tokens
    /\ last.token.exp >= now
    /\ ca_key # 0
    /\ last.token.signature = Some(Sign(ca_key, TokenData(last.token)))
    /\ ~last.ok

\* C7: with a CA set up, validate_token accepts a token only if it is not
\* revoked, not expired and carries a signature that verifies under the CA
\* key over its other fields.
C7_AcceptedTokenIsSigned ==
    (last.op = "validate_token" /\ last.ok /\ ca_key # 0)
    => /\ last.token.token_id \notin revoked_tokens
       /\ last.token.exp >= now
       /\ last.token.signature # Nothing
       /\ Verify(ca_key, TokenData(last.token), last.token.signature[1])

\* C10: for distinct sender and recipient that both have a key pair in the
\* keyring, decrypt_message(recipient, encrypt_message(sender, recipient, m))
\* returns m.
KeyPairInKeyring(e) ==
    private_keys[e] # 0 /\ public_keys[e] = private_keys[e]

C10_RoundTrip ==
    (/\ last.op = "encrypt_then_decrypt"
     /\ KeyPairInKeyring(last.msg.sender)
     /\ KeyPairInKeyring(last.msg.recipient))
    => last.out = Some(last.msg)

\* The position of the first handler of hs that returns a response, 0 when
\* none does.
FirstResponder(hs) ==
    IF \E i \in 1..Len(hs) : hs[i] = "resp"
    THEN CHOOSE i \in 1..Len(hs) :
            hs[i] = "resp" /\ \A j \in 1..(i - 1) : hs[j] # "resp"
    ELSE 0

\* C5: the recipient's handlers are invoked in registration order, up to and
\* including the first one that returns a non-empty response, and no further;
\* route_message returns that response, or none when no handler returns one.
C5_FirstResponseEndsChain ==
    (IsRoute /\ last.delivered # <<>>)
    => LET o == last.delivered[1]
           hs == handlers[o]
           f == FirstResponder(hs)
           n == IF f = 0 THEN Len(hs) ELSE f
       IN  /\ last.invoked = [i \in 1..n |-> <<o, i>>]
           /\ last.result = IF f = 0 THEN Nothing ELSE Some(Response(o, f))

\* A route whose recipient has two handlers that both respond: only the
\* first ran, and its response came back.
C5_Witness ==
    /\ IsRoute /\ last.delivered # <<>>
    /\ handlers[last.delivered[1]] = <<"resp", "resp">>
    /\ last.invoked = <<<<last.delivered[1], 1>>>>
    /\ last.result = Some(Response(last.delivered[1], 1))

\* C8: when no shared key can be derived for sender and recipient,
\* encrypt_message produces no dictionary at all (it fails with KeyNotFound).
C8_NoKeyNoEnvelope ==
    (last.op = "encrypt_message" /\ last.key = Nothing) => last.out = Nothing

\* C9: when a session receives an encrypted envelope whose decryption fails,
\* nothing is placed on the session's receive queue.
C9_FailedDecryptIsNotQueued ==
    (/\ last.op = "receive_message" /\ last.decrypts
     /\ decrypt_message_result(shared_keys, last.client, last.msg).out = Nothing)
    => last.queued = Nothing

\* C11: every dictionary that send_message of a session hands to the router
\* has sender equal to the session's entity id.
C11_RoutedSenderIsSession ==
    (last.op = "send_message" /\ last.routed # Nothing)
    => last.routed[1].sender = last.client

\* C12: verify_entity_certificate returns true iff the certificate is well
\* formed, its serial is not revoked, not_before <= now <= not_after, its
\* issuer is the CA certificate's subject, and its signature verifies under
\* the CA certificate's public key over its other fields.
C12_CertificateVerdict ==
    last.op = "verify_entity_certificate"
    => (last.ok <=>
          /\ CertKeys \subseteq DOMAIN last.cert
          /\ last.cert.serial_number \notin revoked_certificates
          /\ last.cert.not_before <= now /\ now <= last.cert.not_after
          /\ last.cert.issuer = last.ca.subject
          /\ last.cert.signature = Sign(last.ca.public_key, CertData(last.cert)))

\* A certificate is accepted at the last instant of its validity period.
C12_Witness ==
    /\ last.op = "verify_entity_certificate"
    /\ last.ok
    /\ now = last.cert.not_after

\* C13: verify_entity_authentication returns true only if a CA is set up,
\* the certificate verifies against that CA, the certificate's entity id is
\* the entity id given and its public key is the public key given.
C13_AuthenticationBinds ==
    (last.op = "verify_entity_authentication" /\ last.ok)
    => /\ ca_key # 0
       /\ last.cert.serial_number \notin revoked_certificates
       /\ last.cert.not_before <= now /\ now <= last.cert.not_after
       /\ last.cert.issuer = CaSubject
       /\ last.cert.signature = Sign(ca_key, CertData(last.cert))
       /\ last.cert.entity_id = last.entity_id
       /\ last.cert.public_key = b64encode(last.public_key)

\* A certificate issued to an entity authenticates that entity with its key.
C13_Witness ==
    /\ last.op = "verify_entity_authentication"
    /\ last.ok
    /\ last.entity_id = "a" /\ last.public_key = "ka"

\* The handler chains that are executing in session c: the tasks of c that
\* are inside a handler.
Executing(c) == {t \in 1..Len(tasks[c]) : tasks[c][t].pc = "handler"}

\* C14: within one session at most one message's handler chain is executing
\* at any time.
C14_OneChainAtATime ==
    \A c \in Ids : Cardinality(Executing(c)) <= 1

\* The position of x in the sequence seq.
Pos(seq, x) == CHOOSE i \in 1..Len(seq) : seq[i] = x

\* C15: each handler of a session is invoked with the messages in the order
\* receive_message accepted them, and for each message the handlers are
\* invoked in registration order.
C15_FifoDispatch ==
    \A c \in Ids : \A j, k \in 1..Len(log[c]) :
        j < k =>
          /\ log[c][j].handler = log[c][k].handler
                => Pos(accepted[c], log[c][j].id) <= Pos(accepted[c], log[c][k].id)
          /\ log[c][j].id = log[c][k].id
                => log[c][j].handler < log[c][k].handler

\* The task of the last step, which ended a handler's await, goes on: it
\* invokes the next handler for the same message, or, after the last
\* handler, goes back to waiting for the next message; the queue and the
\* session's task are left as they were.
TaskGoesOn ==
    LET c == last'.client
        old == last'.was
        new == tasks'[c][last'.task]
    IN  /\ new.pc # "done"
        /\ old.i < Len(message_handlers[c])
              => new.pc = "handler" /\ new.i = old.i + 1 /\ new.msg = old.msg
        /\ old.i >= Len(message_handlers[c]) => new.pc = "get"
        /\ message_queue'[c] = message_queue[c]
        /\ processing_task'[c] = processing_task[c]

C17_DisconnectLetsHandlerFinish ==
    \A c \in Ids : \A j \in 1..Len(log[c]) : log[c][j].end # "cancelled"

\* C18: when disconnect returns, the session's receive queue is empty.
C18_DisconnectDrainsQueue ==
    last.op = "disconnect" => message_queue[last.client] = <<>>

\* C19: a session on which disconnect has been called is never Connected
\* again.
C19_NoReconnect ==
    \A c \in Ids : "disconnect" \in history[c] => ~connected[c]

\* The operations of a session other than connect.
OtherOps ==
    {"send_message", "register_capabilities", "find_entities", "heartbeat",
     "disconnect", "register_message_handler", "unregister_message_handler"}

\* The call the record l describes reported a failure to its caller.
Failed(l) ==
    IF l.op = "register_message_handler" THEN FALSE ELSE ~l.result

\* C20: on a session whose connect has never succeeded, every operation
\* other than connect fails and changes neither the session, the registry
\* nor the router.
C20_InitOnlyConnects ==
    [][(last'.op \in OtherOps /\ "connect" \notin history[last'.client])
         => LET c == last'.client
            IN  /\ Failed(last')
                /\ connected'[c] = connected[c]
                /\ processing_task'[c] = processing_task[c]
                /\ tasks'[c] = tasks[c]
                /\ message_handlers'[c] = message_handlers[c]
                /\ message_queue'[c] = message_queue[c]
                /\ entities' = entities
                /\ core_entities' = core_entities]_vars

\* The bound of the receive queue (1024 by default), scaled to the number
\* of messages this model delivers to a session.
QueueBound == MaxQueue - 1

\* C21: the receive queue of a session never holds more than its bound;
\* receive_message on a session whose queue is full fails instead of
\* growing the queue.
C21_QueueIsBounded ==
    /\ \A c \in Ids : Len(message_queue[c]) <= QueueBound
    /\ (last.op = "receive_message" /\ last.result)
          => Len(message_queue[last.client]) <= QueueBound

\* The permission the question (resource, action) stands for.
Permission(resource, action) == resource \o <<":">> \o action

NoRoles == \A e \in Ids : entity_roles[e] = {}
NoPolicies == \A pid \in PolicyIds : policies[pid] = Nothing

\* C22: with no roles assigned and no policies added, evaluate_policy
\* returns false for every entity, resource, action and context.
C22_DenyByDefault ==
    (last.op = "evaluate_policy" /\ NoRoles /\ NoPolicies)
    => last.result = "False"

C22_Witness ==
    /\ last.op = "evaluate_policy" /\ NoRoles /\ NoPolicies
    /\ role_permissions["guest"] # {}
    /\ last.context # NoContext
    /\ last.result = "False"

RECURSIVE SegmentMatch(_, _)
\* The permission p is the pattern q with a dot-free segment in place of
\* each "*" of q.
SegmentMatch(q, p) ==
    IF q = <<>> THEN p = <<>>
    ELSE IF Head(q) = "*"
         THEN \E k \in 0..Len(p) :
                 /\ \A j \in 1..k : p[j] # "."
                 /\ SegmentMatch(Tail(q), SubSeq(p, k + 1, Len(p)))
         ELSE p # <<>> /\ Head(p) = Head(q) /\ SegmentMatch(Tail(q), Tail(p))

\* C23: check_permission(entity, p) is true iff some permission granted
\* through one of the roles the entity has now equals p or matches p with
\* each "*" standing for one dot-free segment.
C23_PermissionIffGranted ==
    last.op = "check_permission"
    => (last.result
          <=> \E r \in entity_roles[last.entity] :
                 \E q \in role_permissions[r] :
                    q = last.permission \/ SegmentMatch(q, last.permission))

\* C24: evaluate_policy returns true only through a permission or through
\* a policy whose effect is not deny.
C24_DenyNeverGrants ==
    (last.op = "evaluate_policy" /\ last.result = "True")
    => \/ check_permission(last.entity, Permission(last.resource, last.action))
       \/ \E pid \in PolicyIds :
             /\ policies[pid] # Nothing
             /\ policies[pid][1].effect # Some("deny")

\* The "*" in place of a list of resources or of actions.
Wildcard == Some(Str(<<"*">>))

\* C25: a policy whose resources (actions) field is "*" decides a question
\* as the same policy with the resource (action) asked about listed in
\* that field.
C25_WildcardPermitsAll ==
    last.op = "evaluate_policy"
    => \A pid \in PolicyIds :
          policies[pid] # Nothing
          => LET policy == policies[pid][1]
                 listed ==
                    [policy EXCEPT
                       !.resources = IF @ = Wildcard
                                     THEN Some(List({last.resource})) ELSE @,
                       !.actions = IF @ = Wildcard
                                   THEN Some(List({last.action})) ELSE @]
             IN  evaluate_policy_rules(policy, last.entity, last.resource,
                                       last.action, last.context, now)
                 = evaluate_policy_rules(listed, last.entity, last.resource,
                                         last.action, last.context, now)

\* A condition _evaluate_condition has no branch for.
Unknown(condition) ==
    \/ condition.type \notin ConditionTypes
    \/ /\ condition.type = "attribute"
       /\ condition.operator # Nothing
       /\ condition.operator[1] \notin Operators

HasUnknownCondition(policy) ==
    /\ policy.conditions # Nothing
    /\ \E i \in 1..Len(policy.conditions[1]) : Unknown(policy.conditions[1][i])

\* C26: a policy with a condition of an unknown type, or with an attribute
\* condition of an unknown operator, allows nothing, whatever the context:
\* when no other policy is installed, evaluate_policy returns true only
\* through a permission.
C26_UnknownConditionFailsClosed ==
    (last.op = "evaluate_policy"
       /\ \A pid \in PolicyIds :
             policies[pid] # Nothing => HasUnknownCondition(policies[pid][1]))
    => /\ \A pid \in PolicyIds :
             policies[pid] # Nothing
             => evaluate_policy_rules(policies[pid][1], last.entity,
                                      last.resource, last.action,
                                      last.context, now) # "True"
       /\ last.result = "True"
             => check_permission(last.entity,
                                 Permission(last.resource, last.action))

C26_Witness ==
    /\ last.op = "evaluate_policy"
    /\ \E pid \in PolicyIds :
          /\ policies[pid] # Nothing
          /\ HasUnknownCondition(policies[pid][1])
          /\ Len(policies[pid][1].conditions[1]) > 1
    /\ last.context # NoContext
    /\ NoRoles
    /\ last.result = "False"

\* C27: Registry.register_entity with an entity whose id is already
\* registered fails and leaves the registry unchanged: the entity
\* registered before stays bound to the id.
C27_DuplicateRegistrationFails ==
    [][(last'.op = "register_entity" /\ entities[ObjId(last'.obj)] # None)
         => (~last'.result /\ entities' = entities)]_vars

C27_Witness ==
    /\ last.op = "register_entity"
    /\ ~last.result
    /\ entities[ObjId(last.obj)] \notin {None, last.obj}

\* A handler invoked by the last route call raised.
HandlerRaised ==
    \E i \in 1..Len(last.invoked) :
       handlers[last.invoked[i][1]][last.invoked[i][2]] = "raise"

\* C28: a route call in which a handler raised and no handler produced a
\* response reports a HandlerFailure; a call in which a handler produced a
\* response returns it and reports no error.
C28_HandlerFailureReported ==
    IsRoute
    => /\ (HandlerRaised /\ last.result = Nothing)
             => last.error = "HandlerFailure"
       /\ last.result # Nothing => last.error = None

ResponseOps ==
    {"create_response", "create_error_response", "create_ack_response"}

\* C29: create_response(request, intent, payload) returns a message with
\* recipient = request.sender, sender = request.recipient, id = "response-"
\* followed by request.id, and the intent and payload given;
\* create_error_response and create_ack_response return the same with the
\* intents "error" and "ack" and the request's intent as original_intent.
C29_ResponseAnswersRequest ==
    last.op \in ResponseOps
    => /\ last.result.recipient = last.request.sender
       /\ last.result.sender = last.request.recipient
       /\ last.result.id = <<"response-">> \o last.request.id
       /\ last.op = "create_response"
             => /\ last.result.intent = last.intent
                /\ last.result.payload = last.payload
       /\ last.op = "create_error_response"
             => /\ last.result.intent = "error"
                /\ last.result.payload.original_intent = last.request.intent
       /\ last.op = "create_ack_response"
             => /\ last.result.intent = "ack"
                /\ last.result.payload.original_intent = last.request.intent

C29_Witness ==
    /\ last.op = "create_ack_response"
    /\ last.request.sender = "a" /\ last.request.recipient = "b"
    /\ last.request.id = <<"response-", "m1">>
    /\ last.result.sender = "b" /\ last.result.recipient = "a"
    /\ last.result.id = <<"response-", "response-", "m1">>
    /\ last.result.payload.original_intent = "w"

\* C30: between a disconnect that has returned and the next connect the
\* session invokes no handler, whatever connect calls came before.
C30_NoHandlerAfterDisconnect ==
    [][\A c \in Ids :
         (~connected[c] /\ ~connected'[c]) => Len(log'[c]) = Len(log[c])]_vars

\* The invocations of handler k made for the message of id `id` in session c.
InvocationsOf(c, id, k) ==
    {e \in 1..Len(log'[c]) : log'[c][e].id = id /\ log'[c][e].kind = k}

\* C31: when the dispatch of a message ends, every handler that was
\* registered when it started and was not unregistered during it has been
\* invoked exactly once for the message.  Handlers are registered between
\* dispatches only, each once: the ones registered at the end of a dispatch
\* are the ones registered at its start and not unregistered since.
C31_EveryHandlerOnce ==
    [][\A c \in Sessions :
         (/\ last'.op = "process_messages_handler"
          /\ last'.client = c
          /\ tasks'[c][last'.task].pc = "get")
         => \A j \in 1..Len(message_handlers[c]) :
               Cardinality(InvocationsOf(c, MsgId(last'.was.msg[1]),
                                         message_handlers[c][j])) = 1]_vars

\* C32: derive_shared_key(a, b) returns the key that a's current private
\* key and b's current public key determine, also after the key material of
\* a or b was replaced.
C32_SharedKeyIsCurrent ==
    (/\ last.op = "derive_shared_key"
     /\ private_keys[last.local] # 0
     /\ public_keys[last.remote] # 0)
    => last.key = Some(ECDH(private_keys[last.local], public_keys[last.remote]))

RECURSIVE Split(_, _)
\* The parts of the string s between the occurrences of the character ch.
Split(s, ch) ==
    IF Positions(s, ch) = {} THEN <<s>>
    ELSE LET i == CHOOSE p \in Positions(s, ch) :
                     \A q \in Positions(s, ch) : p <= q
         IN  <<SubSeq(s, 1, i - 1)>> \o Split(SubSeq(s, i + 1, Len(s)), ch)

\* The number of whole octets a prefix length covers.
PrefixOctets(bits) ==
    CASE bits = <<"8">> -> 1
      [] bits = <<"1", "6">> -> 2
      [] bits = <<"2", "4">> -> 3
      [] bits = <<"3", "2">> -> 4

\* The address ip lies inside the CIDR block: its first octets, as many as
\* the prefix length covers, are those of the block's base address.  A
\* block without a prefix length is one address.
InCidr(ip, block) ==
    LET parts == Split(block, "/")
    IN  IF Len(parts) = 1 THEN ip = block
        ELSE \A k \in 1..PrefixOctets(parts[2]) :
                Split(ip, ".")[k] = Split(parts[1], ".")[k]

\* C33: an ip_range condition is satisfied iff the context has a client_ip
\* and it lies inside at least one CIDR block of allowed_ips, judged by the
\* block's prefix length.
C33_IpRangeIsCidr ==
    last.op = "evaluate_policy"
    => \A pid \in PolicyIds :
          (policies[pid] # Nothing /\ policies[pid][1].conditions # Nothing)
          => LET conditions == policies[pid][1].conditions[1]
             IN  \A i \in 1..Len(conditions) :
                    conditions[i].type = "ip_range"
                    => (evaluate_condition(conditions[i], last.entity,
                                           last.resource, last.action,
                                           last.context, now) = "True"
                          <=> /\ last.context.client_ip # Nothing
                              /\ \E block \in conditions[i].allowed_ips :
                                    InCidr(last.context.client_ip[1], block))

\* C35: an attribute condition whose attribute is absent from the
\* context's entity_attributes evaluates to false, for every operator, and
\* evaluate_policy returns a boolean without raising.
C35_AbsentAttributeFailsClosed ==
    last.op = "evaluate_policy"
    => \A pid \in PolicyIds :
          (policies[pid] # Nothing /\ policies[pid][1].conditions # Nothing)
          => LET conditions == policies[pid][1].conditions[1]
             IN  \A i \in 1..Len(conditions) :
                    (/\ conditions[i].type = "attribute"
                     /\ conditions[i].operator \in
                           {Nothing} \cup {Some(o) : o \in Operators}
                     /\ Get(last.context.entity_attributes,
                            conditions[i].attribute) = NoneV)
                    => /\ evaluate_condition(conditions[i], last.entity,
                                             last.resource, last.action,
                                             last.context, now) = "False"
                       /\ last.result \in {"True", "False"}

\* The policy allows the question asked by the last call: its resources
\* and actions hold the resource and the action, its entity constraint
\* admits the entity and every one of its conditions is satisfied.
Allows(policy) ==
    /\ policy.resources # Nothing => In(last.resource, policy.resources[1])
    /\ policy.actions # Nothing => In(last.action, policy.actions[1])
    /\ policy.entities # Nothing => EntitiesAllow(policy.entities[1], last.entity)
    /\ policy.conditions # Nothing
          => \A i \in 1..Len(policy.conditions[1]) :
                evaluate_condition(policy.conditions[1][i], last.entity,
                                   last.resource, last.action, last.context,
                                   now) = "True"

\* C34: evaluate_policy returns true iff check_permission is true of
\* resource:action or at least one stored policy allows; a removed policy
\* is not stored.
C34_PermissionOrSomePolicy ==
    last.op = "evaluate_policy"
    => (last.result = "True"
          <=> \/ check_permission(last.entity,
                                  Permission(last.resource, last.action))
              \/ \E pid \in PolicyIds :
                    policies[pid] # Nothing /\ Allows(policies[pid][1]))

\* C36: ProtocolCore.register_entity of an entity whose id is already
\* registered does not replace the entity registered under that id.
C36_CoreKeepsFirstRegistrant ==
    [][(last'.op = "core_register_entity"
          /\ core_entities[ObjId(last'.obj)] # None)
         => core_entities' = core_entities]_vars

\* The certificate the CA issues to entity e at time t.
IssuedTo(e, t) ==
    issue_entity_certificate(e, IF e = "a" THEN "ka" ELSE "kb",
                             CaCert(ca_key, CaSubject), ca_key, t)

\* C37: distinct certificates issued by the CA carry distinct serial
\* numbers, so that revoking a serial number invalidates one issued
\* certificate and none issued to another entity.
C37_SerialsAreDistinct ==
    ca_key # 0
    => \A e1 \in Ids, e2 \in Ids :
          \A t1 \in 0..now, t2 \in 0..now :
             IssuedTo(e1, t1) # IssuedTo(e2, t2)
             => /\ IssuedTo(e1, t1).serial_number # IssuedTo(e2, t2).serial_number
                /\ ~(/\ IssuedTo(e1, t1).serial_number \in revoked_certificates
                      /\ IssuedTo(e2, t2).serial_number \in revoked_certificates)

\* C38: two distinct messages that the response helpers produce, one after
\* the other, have different ids, also when they answer the same request.
C38_MessageIdsAreUnique ==
    [][(/\ last.op \in ResponseOps
        /\ last'.op \in ResponseOps
        /\ last.result # last'.result)
         => last.result.id # last'.result.id]_vars

\* C39: unregister_entity of a registered id removes it, so that
\* get_entity returns none and no message routed afterwards reaches a
\* handler of the entity until the id is registered again;
\* unregister_entity of an id that is not registered fails and changes
\* nothing.
C39_UnregisteredIsUnreachable ==
    [][/\ last'.op = "unregister_entity"
          => IF entities[last'.id] = None
             THEN ~last'.result /\ entities' = entities
             ELSE /\ last'.result
                  /\ entities' = [entities EXCEPT ![last'.id] = None]
       /\ (last'.op = "get_entity" /\ entities[last'.id] = None)
          => last'.result = None
       /\ (/\ last'.op = "route_message"
           /\ last'.router = "Registry"
           /\ Lookup(entities, last'.msg.recipient) = None)
          => /\ last'.delivered = <<>>
             /\ last'.invoked = <<>>
             /\ last'.result = Nothing]_vars

C39_Witness ==
    /\ last.op = "unregister_entity"
    /\ last.result
    /\ entities[last.id] = None
    /\ \E o \in Objs : ObjId(o) = last.id /\ handlers[o] # <<>>

\* The plugin p advertises 'command.<c>' exactly for the commands c that
\* have a handler.
Advertised(p) ==
    \A c \in Commands :
        Capability(c) \in Elements(capabilities[p])
        <=> command_handlers[p][c] # None

\* C40: after any sequence of initialize, register_command_handler and
\* unregister_command_handler calls on a device plugin, the capability
\* 'command.<c>' is among its capabilities iff a handler for c is
\* registered, and initialize keeps the capabilities and the metadata keys
\* the plugin had when the base initialize was entered.
C40_CommandCapabilityIffHandler ==
    /\ \A p \in Plugins : Advertised(p)
    /\ last.op = "initialize"
       => /\ Elements(last.before.capabilities)
              \subseteq Elements(capabilities[last.plugin])
          /\ \A k \in MetadataKeys :
                 last.before.metadata[k] # None
                 => metadata[last.plugin][k] # None
====
